---- MODULE Spec2Model ----
(***************************************************************************)
(* Connection Lifecycle Manager of the IRC plugin (src/src/irc/client.ts,  *)
(* createIrcClient).  One client wrapper, its ConnectionState, the         *)
(* reconnect scheduler and the event listeners that doConnect attaches to  *)
(* the irc-framework Client (an EventEmitter).  An emitted event runs      *)
(* every listener attached for it, in attachment order, and the promise    *)
(* continuations it queued run before the next event.                      *)
(***************************************************************************)
EXTENDS Integers, Sequences, FiniteSets, TLC

\* ---- program constants (client.ts:5-7) ----
INITIAL_RECONNECT_DELAY == 1000
MAX_RECONNECT_DELAY == 300000
MAX_RECONNECT_ATTEMPTS == 10

\* ---- bounds of the model ----
\* number of doConnect() calls (initial connect plus reconnects) explored
MaxConnects == 4
\* number of connect() calls made on the wrapper before it is destroyed
MaxConnectCalls == 2

\* ---- values ----
NoTimer == 0
NoError == "null"
NoNick == "null"
BotNick == "bot"
Nicks == {"bot", "alice"}
ChannelLists == {<<"#A", "#b">>}
AuthChannelLists == {<<>>, <<"#A", "#b">>, <<"#b", "#A">>}
ChannelNames == {"#A", "#b"}
IrcReasons == {"Closing Link"}
SocketErrors == {"ECONNRESET"}

VARIABLES
    config,                \* IrcAccountConfig: sasl, nickservPassword, channels
    allowInsecureNickServ, \* the documented opt-in flag for plaintext auth
    state,                 \* IrcConnectionState
    reconnectTimeout,      \* handle held in the single timer slot
    shouldReconnect,
    isDestroyed,
    timers,                \* setTimeout callbacks still pending, oldest first
    nextTimerId,
    promises,              \* one entry per doConnect() call
    listeners,             \* doConnect generations whose listeners are attached
    connectCalls,          \* calls of connect() accepted by this wrapper
    transport,             \* the socket: "idle", "connecting" or "up"
    lastEvent,             \* what ran in the last step
    wire,                  \* commands handed to the transport in the last step
    calls,                 \* onMessage / onError invocations of the last step
    thrown,                \* the last step was a call that threw
    fatalReported          \* the fatal "max attempts" error has been reported

\* send.ts: the sendMessageIrc / sendActionIrc calls
VARIABLES
    sender,                \* the call that took the last step
    sending                \* the sendMessageIrc calls awaiting their inter-chunk delay

\* the rate limiter of send.ts 155-289 (module state, shared by all clients)
VARIABLES
    rateLimits,            \* Map<string, RateLimitEntry>
    cleanupTimer,          \* the setInterval handle is set
    now,                   \* Date.now()
    rateConfig,            \* the RateLimitConfig the checks are made with
    rateOut,               \* the last isRateLimited call and its result
    window,                \* per key: the calls observed since its window opened
    unswept                \* the map and the last result as they would be had no
                           \* sweep ever run

\* auth.ts, the authorization functions
VARIABLES
    authIn,                \* arguments of the call
    authOut                \* its AuthResult

\* monitor.ts and the onMessage callback of channel.ts 422-452
VARIABLES
    accessConfig,          \* client.config: dm.policy, dm.allowFrom, groupPolicy, groups
    handlers,              \* sendToAgent calls whose process or reply is under way, oldest first
    monOut                 \* what the last step of a handler did

\* channel.ts: the gateway adapter and its module-level maps
VARIABLES
    clients,               \* the clients createIrcClient has made, in order of creation
    activeBuses,           \* Map<accountId, client>, 0 = no entry
    stopCallbacks,         \* Map<accountId, stop callback>, by the client it stops
    status,                \* per account, the last value given to ctx.setStatus
    handles,               \* clients whose { stop } handle the host holds
    gwOut                  \* the last gateway step

\* send.ts 14-73: one chunkMessage call, iteration by iteration
VARIABLES
    chunker                \* text, maxLength, remaining, chunks and where the call is

clientVars == <<config, allowInsecureNickServ, state, reconnectTimeout, shouldReconnect,
                isDestroyed, timers, nextTimerId, promises, listeners, connectCalls,
                transport, lastEvent, wire, calls, thrown, fatalReported>>
senderVars == <<sender, sending>>
rateVars == <<rateLimits, cleanupTimer, now, rateConfig, rateOut, window, unswept>>
authVars == <<authIn, authOut>>
monitorVars == <<accessConfig, handlers, monOut>>
gatewayVars == <<clients, activeBuses, stopCallbacks, status, handles, gwOut>>
chunkVars == <<chunker>>

vars == <<clientVars, senderVars, rateVars, authVars, monitorVars, gatewayVars, chunkVars>>

\* ---- helpers ----
Min(a, b) == IF a <= b THEN a ELSE b

RECURSIVE Pow2(_)
Pow2(n) == IF n = 0 THEN 1 ELSE 2 * Pow2(n - 1)

\* String.prototype.toLowerCase on the channel names of the model
ToLowerCase(s) == CASE s = "#A" -> "#a"
                    [] s = "#B" -> "#b"
                    [] OTHER -> s

Cmd(c, a) == [cmd |-> c, arg |-> a]
ConnectCmd == Cmd("CONNECT", "")
QuitCmd == Cmd("QUIT", "Goodbye")
IdentifyCmd == Cmd("SAY", "NickServ IDENTIFY")
JoinCmd(ch) == Cmd("JOIN", ch)
PartCmd(ch) == Cmd("PART", ch)

FatalCall == "onError:Max reconnection attempts reached"

\* the mutable pieces a handler works on
Ctx == [state |-> state, reconnectTimeout |-> reconnectTimeout, timers |-> timers,
        nextTimerId |-> nextTimerId, promises |-> promises, listeners |-> listeners,
        transport |-> transport, wire |-> <<>>, calls |-> <<>>]

\* Math.min(INITIAL_RECONNECT_DELAY * Math.pow(2, attempts), MAX_RECONNECT_DELAY)
ReconnectDelay(attempts) ==
    Min(INITIAL_RECONNECT_DELAY * Pow2(attempts), MAX_RECONNECT_DELAY)

\* variant: the ceiling tested with > instead of >=
ScheduleReconnectPastCeiling(m) ==
    IF ~shouldReconnect \/ isDestroyed
         \/ m.state.reconnectAttempts > MAX_RECONNECT_ATTEMPTS
    THEN [m EXCEPT !.calls = Append(@, FatalCall)]
    ELSE [m EXCEPT !.state.reconnectAttempts = @ + 1,
                   !.timers = Append(@, [id |-> m.nextTimerId,
                                         delay |-> ReconnectDelay(m.state.reconnectAttempts)]),
                   !.reconnectTimeout = m.nextTimerId,
                   !.nextTimerId = @ + 1]

\* scheduleReconnect(): the guard, the delay, the counter, setTimeout
ScheduleReconnect(m) ==
    IF ~shouldReconnect \/ isDestroyed
         \/ m.state.reconnectAttempts >= MAX_RECONNECT_ATTEMPTS
    THEN [m EXCEPT !.calls = Append(@, FatalCall)]
    ELSE [m EXCEPT !.state.reconnectAttempts = @ + 1,
                   !.timers = Append(@, [id |-> m.nextTimerId,
                                         delay |-> ReconnectDelay(m.state.reconnectAttempts)]),
                   !.reconnectTimeout = m.nextTimerId,
                   !.nextTimerId = @ + 1]

RECURSIVE ScheduleTimes(_, _)
ScheduleTimes(m, n) == IF n = 0 THEN m ELSE ScheduleTimes(ScheduleReconnect(m), n - 1)

\* resolve() / reject() behind the closure's `resolved` flag
Settle(p, outcome, reason) ==
    IF ~p.resolved
    THEN [p EXCEPT !.resolved = TRUE, !.outcome = outcome, !.reason = reason,
                   !.settles = @ + 1]
    ELSE p

\* doConnect(): a new promise, a new set of listeners, client.connect()
DoConnect(m, owner) ==
    IF isDestroyed
    THEN [m EXCEPT !.promises = Append(@, [owner |-> owner, resolved |-> TRUE,
                                           outcome |-> "rejected",
                                           reason |-> "Client has been destroyed",
                                           settles |-> 1])]
    ELSE [m EXCEPT !.promises = Append(@, [owner |-> owner, resolved |-> FALSE,
                                           outcome |-> "pending", reason |-> NoError,
                                           settles |-> 0]),
                   !.listeners = Append(@, Len(m.promises) + 1),
                   !.wire = Append(@, ConnectCmd),
                   !.transport = "connecting"]

RECURSIVE JoinAll(_)
JoinAll(chs) == IF chs = <<>> THEN <<>> ELSE <<JoinCmd(Head(chs))>> \o JoinAll(Tail(chs))

\* variant: the NickServ fallback without the `!config.sasl` condition
SendsIdentifyDespiteSasl == config.nickservPassword

\* `if (config.nickservPassword && !config.sasl)` of the registered handler
SendsIdentify == config.nickservPassword /\ ~config.sasl

\* variant: the registered handler without `state.reconnectAttempts = 0`
OnRegisteredKeepsAttempts(m, g) ==
    LET ident == IF SendsIdentify THEN <<IdentifyCmd>> ELSE <<>>
    IN [m EXCEPT !.state.connected = TRUE,
                 !.state.registered = TRUE,
                 !.state.nickname = BotNick,
                 !.state.lastError = NoError,
                 !.wire = @ \o ident \o JoinAll(config.channels),
                 !.promises[g] = Settle(@, "resolved", NoError)]

\* client.on("registered")
OnRegistered(m, g) ==
    LET ident == IF SendsIdentify THEN <<IdentifyCmd>> ELSE <<>>
    IN [m EXCEPT !.state.connected = TRUE,
                 !.state.registered = TRUE,
                 !.state.nickname = BotNick,
                 !.state.lastError = NoError,
                 !.state.reconnectAttempts = 0,
                 !.wire = @ \o ident \o JoinAll(config.channels),
                 !.promises[g] = Settle(@, "resolved", NoError)]

\* client.on("join")
OnJoin(m, ev) ==
    IF ev.nick = m.state.nickname
    THEN [m EXCEPT !.state.channels = @ \cup {ToLowerCase(ev.channel)}]
    ELSE m

\* client.on("part") and client.on("kick")
OnPart(m, ev) ==
    IF ev.nick = m.state.nickname
    THEN [m EXCEPT !.state.channels = @ \ {ToLowerCase(ev.channel)}]
    ELSE m

\* client.on("nick")
OnNick(m, ev) ==
    IF ev.nick = m.state.nickname
    THEN [m EXCEPT !.state.nickname = ev.new_nick]
    ELSE m

\* client.on("privmsg")
OnPrivmsg(m) == [m EXCEPT !.calls = Append(@, "onMessage")]

\* variant: the socket close handler without `state.channels.clear()`
OnSocketCloseKeepsChannels(m) ==
    LET m1 == [m EXCEPT !.state.connected = FALSE,
                        !.state.registered = FALSE]
    IN IF shouldReconnect /\ ~isDestroyed THEN ScheduleReconnect(m1) ELSE m1

\* client.on("socket close")
OnSocketClose(m) ==
    LET m1 == [m EXCEPT !.state.connected = FALSE,
                        !.state.registered = FALSE,
                        !.state.channels = {}]
    IN IF shouldReconnect /\ ~isDestroyed THEN ScheduleReconnect(m1) ELSE m1

\* variant: a socket error handler that also marks the connection as lost
OnSocketErrorDisconnects(m, ev) ==
    [m EXCEPT !.state.lastError = ev.message,
              !.state.connected = FALSE,
              !.state.registered = FALSE,
              !.calls = Append(@, "onError:socket")]

\* client.on("socket error")
OnSocketError(m, ev) ==
    [m EXCEPT !.state.lastError = ev.message,
              !.calls = Append(@, "onError:socket")]

\* client.on("irc error")
OnIrcError(m, g, ev) ==
    [m EXCEPT !.state.lastError = ev.reason,
              !.calls = Append(@, "onError:irc"),
              !.promises[g] = Settle(@, "rejected", ev.reason)]

\* one listener of generation g handling event ev
Handle(m, g, ev) ==
    CASE ev.type = "registered"   -> OnRegistered(m, g)
      [] ev.type = "join"         -> OnJoin(m, ev)
      [] ev.type = "part"         -> OnPart(m, ev)
      [] ev.type = "privmsg"      -> OnPrivmsg(m)
      [] ev.type = "nick"         -> OnNick(m, ev)
      [] ev.type = "socket close" -> OnSocketClose(m)
      [] ev.type = "socket error" -> OnSocketError(m, ev)
      [] ev.type = "irc error"    -> OnIrcError(m, g, ev)

\* EventEmitter.emit: every attached listener, in attachment order
RECURSIVE Emit(_, _, _)
Emit(m, ls, ev) ==
    IF ls = <<>> THEN m ELSE Emit(Handle(m, Head(ls), ev), Tail(ls), ev)

\* timer callbacks whose `await doConnect()` was rejected by this event:
\* each runs its catch block, which calls scheduleReconnect()
RejectedAwaits(before, after) ==
    Cardinality({i \in 1..Len(before) :
                    /\ before[i].owner = "timer"
                    /\ before[i].outcome = "pending"
                    /\ after[i].outcome = "rejected"})

\* the event, then the continuations it queued
Deliver(m, ev) ==
    LET m1 == Emit(m, m.listeners, ev)
    IN ScheduleTimes(m1, RejectedAwaits(m.promises, m1.promises))

HasFatal(cs) == \E i \in 1..Len(cs) : cs[i] = FatalCall

\* write a handler's result back
Commit(m, name) ==
    /\ state' = m.state
    /\ reconnectTimeout' = m.reconnectTimeout
    /\ timers' = m.timers
    /\ nextTimerId' = m.nextTimerId
    /\ promises' = m.promises
    /\ listeners' = m.listeners
    /\ transport' = m.transport
    /\ wire' = m.wire
    /\ calls' = m.calls
    /\ lastEvent' = name
    /\ fatalReported' = (fatalReported \/ HasFatal(m.calls))

\* ---- strings: sequences of one-character strings ----
\* what String.prototype.trim / trimStart / trimEnd remove and the regular
\* expression class \s matches, among the characters used: space, line
\* feed, tab, carriage return, vertical tab ("x0B") and form feed ("x0C")
WhiteSpace == {" ", "\n", "\t", "\r", "x0B", "x0C"}
UpperCase == <<"A", "B", "C", "D", "E", "F", "G", "H", "I", "J", "K", "L", "M",
               "N", "O", "P", "Q", "R", "S", "T", "U", "V", "W", "X", "Y", "Z">>
LowerCase == <<"a", "b", "c", "d", "e", "f", "g", "h", "i", "j", "k", "l", "m",
               "n", "o", "p", "q", "r", "s", "t", "u", "v", "w", "x", "y", "z">>

LowerChar(c) ==
    IF \E i \in 1..Len(UpperCase) : UpperCase[i] = c
    THEN LowerCase[CHOOSE i \in 1..Len(UpperCase) : UpperCase[i] = c]
    ELSE c

\* s.toLowerCase()
StrToLowerCase(s) == [i \in 1..Len(s) |-> LowerChar(s[i])]

\* the largest and the smallest element of a non-empty set of integers
Max(S) == CHOOSE x \in S : \A y \in S : y <= x
MinOf(S) == CHOOSE x \in S : \A y \in S : x <= y

\* s.trimEnd()
TrimEnd(s) ==
    LET keep == {i \in 1..Len(s) : s[i] \notin WhiteSpace}
    IN IF keep = {} THEN <<>> ELSE SubSeq(s, 1, Max(keep))

\* s.trimStart()
TrimStart(s) ==
    LET keep == {i \in 1..Len(s) : s[i] \notin WhiteSpace}
    IN IF keep = {} THEN <<>> ELSE SubSeq(s, MinOf(keep), Len(s))

\* s.trim()
Trim(s) == TrimStart(TrimEnd(s))

\* s.lastIndexOf(c, from): the 0-based index, -1 when there is none
LastIndexOf(s, c, from) ==
    LET hits == {i \in 0..Min(from, Len(s) - 1) : s[i + 1] = c}
    IN IF hits = {} THEN -1 ELSE Max(hits)

\* s.slice(a, b) and s.slice(a) for 0 <= a <= b <= s.length
Slice(s, a, b) == SubSeq(s, a + 1, b)
SliceFrom(s, a) == SubSeq(s, a + 1, Len(s))

\* s.split(c)
RECURSIVE Split(_, _)
Split(s, c) ==
    LET hits == {i \in 1..Len(s) : s[i] = c}
    IN IF hits = {} THEN <<s>>
       ELSE LET i == MinOf(hits)
            IN <<SubSeq(s, 1, i - 1)>> \o Split(SliceFrom(s, i), c)

\* ---- send.ts: chunkMessage ----
MAX_MESSAGE_LENGTH == 450

\* variant: the character after the split point is skipped whatever it is
SkipCharAlways(nextChar) == 1

\* send.ts 66-67: the character at the split point is skipped when it is a
\* space or a newline
SkipChar(nextChar) == IF nextChar = " " \/ nextChar = "\n" THEN 1 ELSE 0

\* variant: the forced split one character past the limit
ChunkStepSplitsLate(remaining, maxLength) ==
    IF Len(remaining) <= maxLength + 1
    THEN [chunk |-> TrimEnd(remaining), rest |-> <<>>, last |-> TRUE]
    ELSE [chunk |-> Slice(remaining, 0, maxLength + 1),
          rest |-> SliceFrom(remaining, maxLength + 1), last |-> FALSE]

\* one iteration of the while loop of chunkMessage, for a non-empty
\* remaining: the chunk it cuts ("" = none pushed), what remains, and
\* whether it left the loop by break; `index > maxLength * 0.3` in integers
ChunkStep(remaining, maxLength) ==
    IF Len(remaining) <= maxLength
    THEN [chunk |-> TrimEnd(remaining), rest |-> <<>>, last |-> TRUE]
    ELSE LET newlineIndex == LastIndexOf(remaining, "\n", maxLength)
             spaceIndex == LastIndexOf(remaining, " ", maxLength)
             splitIndex == IF 10 * newlineIndex > 3 * maxLength THEN newlineIndex
                           ELSE IF 10 * spaceIndex > 3 * maxLength THEN spaceIndex
                           ELSE maxLength
             skipChar == SkipChar(remaining[splitIndex + 1])
         IN [chunk |-> TrimEnd(Slice(remaining, 0, splitIndex)),
             rest |-> SliceFrom(remaining, splitIndex + skipChar),
             last |-> FALSE]

\* chunks.push(chunk) when the chunk is not empty
Push(chunks, chunk) == IF Len(chunk) > 0 THEN Append(chunks, chunk) ELSE chunks

\* the while loop of chunkMessage
RECURSIVE ChunkLoop(_, _, _)
ChunkLoop(remaining, maxLength, chunks) ==
    IF Len(remaining) = 0 THEN chunks
    ELSE LET step == ChunkStep(remaining, maxLength)
         IN IF step.last THEN Push(chunks, step.chunk)
            ELSE ChunkLoop(step.rest, maxLength, Push(chunks, step.chunk))

ChunkMessage(text, maxLength) ==
    IF Len(text) = 0 THEN <<>>
    ELSE IF Len(text) <= maxLength THEN <<text>>
    ELSE ChunkLoop(text, maxLength, <<>>)

\* ---- send.ts: sendMessageIrc, sendActionIrc ----
\* length of the one line of SendTexts that chunkMessage has to split
LongLen == 460

LongLine == [i \in 1..LongLen |-> IF i = MAX_MESSAGE_LENGTH \div 2 THEN " " ELSE "x"]

\* the texts sent: empty, one line, two lines, three lines around an empty
\* one, a line longer than MAX_MESSAGE_LENGTH
SendTexts == {<<>>, <<"h", "i">>, <<"a", "\n", "b">>,
              <<"a", "\n", "\n", "b", "\n", "c">>, LongLine}
SendActions == {<<"w", "a", "v", "e", "s">>}
SendTargets == {"#A"}

\* the CTCP delimiter character \x01
CtcpDelim == "x01"

\* `\x01ACTION ${action}\x01`
CtcpAction(action) ==
    <<CtcpDelim, "A", "C", "T", "I", "O", "N", " ">> \o action \o <<CtcpDelim>>

\* the for loop over text.split("\n"): empty lines skipped, the others chunked
RECURSIVE ChunkLines(_)
ChunkLines(lines) ==
    IF lines = <<>> THEN <<>>
    ELSE (IF Len(Head(lines)) = 0 THEN <<>>
          ELSE ChunkMessage(Head(lines), MAX_MESSAGE_LENGTH))
         \o ChunkLines(Tail(lines))

AllChunks(text) == ChunkLines(Split(text, "\n"))

\* bound: sendMessageIrc calls awaiting their delay at once
MaxSending == 2

\* no call made yet
SenderIdle == [op |-> "none", phase |-> "none", status |-> "idle", error |-> NoError,
               target |-> "", chunks |-> <<>>, next |-> 1, said |-> <<>>]

\* variant: the sender without the connected / registered checks
SendPreconditionNone == "ok"

\* the two checks that open sendMessageIrc and sendActionIrc
SendPrecondition ==
    IF ~state.connected THEN "IRC client not connected"
    ELSE IF ~state.registered THEN "IRC client not registered"
    ELSE "ok"

\* wrapper.say(): handed to the transport only when connected and registered
WrapperSay(s, text) ==
    IF state.connected /\ state.registered
    THEN [s EXCEPT !.said = Append(@, [target |-> s.target, i |-> s.next,
                                       text |-> text])]
    ELSE s

\* one round of the send loop: client.say(target, chunk), then either the
\* await of the inter-chunk delay or the end of the call
SendLoop(s) ==
    IF s.next > Len(s.chunks)
    THEN [s EXCEPT !.status = "done"]
    ELSE [WrapperSay(s, s.chunks[s.next]) EXCEPT
              !.next = @ + 1,
              !.status = IF s.next < Len(s.chunks) THEN "delay" ELSE "done"]

\* ---- send.ts 155-289: the rate limiter ----
\* DEFAULT_RATE_LIMIT
DEFAULT_RATE_LIMIT == [maxRequests |-> 5, windowMs |-> 60000]

\* bounds: the largest limit, the largest window and the last clock value
MaxRequests == 3
MaxWindow == 3
MaxTime == 6

\* limits and window lengths the checks are configured with
RateConfigs == [maxRequests : 1..MaxRequests, windowMs : 2..MaxWindow]

\* sender identifiers: one identity in three spellings, and another identity
RateNicks == {<<"a", "l">>, <<"A", "l">>, <<" ", "a", "L", "x0B">>, <<"b", "o">>}

NoRateCall == [nick |-> <<>>, key |-> <<>>, limited |-> FALSE, shouldNotify |-> FALSE,
               called |-> FALSE]
EmptyMap == [k \in {} |-> 0]

\* Map.prototype.set
MapSet(f, k, v) == [x \in DOMAIN f \cup {k} |-> IF x = k THEN v ELSE f[x]]

\* Map.prototype.delete
MapDelete(f, k) == [x \in DOMAIN f \ {k} |-> f[x]]

\* variant: the key without toLowerCase()
NormalizeKeyKeepsCase(nick) == Trim(nick)

\* normalizeKey(): nick.toLowerCase().trim()
NormalizeKey(nick) == Trim(StrToLowerCase(nick))

\* variant: `entry.count > config.maxRequests` as the over-limit test
RateCheckOffByOne(limits, key, t, cfg) ==
    IF key \notin DOMAIN limits \/ t > limits[key].resetTime
    THEN [limits |-> MapSet(limits, key, [count |-> 1, resetTime |-> t + cfg.windowMs,
                                          notified |-> FALSE]),
          limited |-> FALSE, shouldNotify |-> FALSE]
    ELSE IF limits[key].count > cfg.maxRequests
    THEN [limits |-> [limits EXCEPT ![key].notified = TRUE],
          limited |-> TRUE, shouldNotify |-> ~limits[key].notified]
    ELSE [limits |-> [limits EXCEPT ![key].count = @ + 1],
          limited |-> FALSE, shouldNotify |-> FALSE]

\* the body of isRateLimited() after normalizeKey(): the map it leaves and
\* the result it returns, at time t
RateCheck(limits, key, t, cfg) ==
    IF key \notin DOMAIN limits \/ t > limits[key].resetTime
    THEN [limits |-> MapSet(limits, key, [count |-> 1, resetTime |-> t + cfg.windowMs,
                                          notified |-> FALSE]),
          limited |-> FALSE, shouldNotify |-> FALSE]
    ELSE IF limits[key].count >= cfg.maxRequests
    THEN [limits |-> [limits EXCEPT ![key].notified = TRUE],
          limited |-> TRUE, shouldNotify |-> ~limits[key].notified]
    ELSE [limits |-> [limits EXCEPT ![key].count = @ + 1],
          limited |-> FALSE, shouldNotify |-> FALSE]

\* the caller's view of a key: when its window opened and how many checks
\* were made in it (counted up to two past the limit); a check later than
\* the window's end opens a new window
Observe(w, key, t, cfg) ==
    IF key \notin DOMAIN w \/ t > w[key].start + cfg.windowMs
    THEN MapSet(w, key, [start |-> t, calls |-> 1])
    ELSE [w EXCEPT ![key].calls = Min(@ + 1, cfg.maxRequests + 2)]

\* variant: the sweep also deletes an entry at the instant now = resetTime
SweepKeepsStrict(entry, t) == ~(t >= entry.resetTime)

\* send.ts 207: the sweep deletes an entry when now > entry.resetTime
SweepKeeps(entry, t) == ~(t > entry.resetTime)

\* send.ts 204-211: the callback of the cleanup interval, at time t
SweepMap(limits, t) ==
    [k \in {x \in DOMAIN limits : SweepKeeps(limits[x], t)} |-> limits[k]]

\* ---- auth.ts ----
Wildcard == <<"*">>
Absent == "undefined"
NoReason == "undefined"
Allow == [authorized |-> TRUE, reason |-> NoReason]
Deny(reason) == [authorized |-> FALSE, reason |-> reason]
\* the call ends with an exception instead of a result
Throw(error) == [threw |-> error]
SomeOfUndefined == "TypeError: Cannot read properties of undefined (reading 'some')"

\* normalizeNick(): nick.toLowerCase().trim()
NormalizeNick(nick) == Trim(StrToLowerCase(nick))

\* variant: matchesEntry comparing the names as written
MatchesEntryExact(nick, entry) ==
    \/ entry = Wildcard
    \/ nick = entry

\* matchesEntry()
MatchesEntry(nick, entry) ==
    \/ entry = Wildcard
    \/ NormalizeNick(nick) = NormalizeNick(entry)

\* isInList(): entries.some(...)
IsInList(nick, entries) == \E i \in 1..Len(entries) : MatchesEntry(nick, entries[i])

\* isAuthorizedForDm()
IsAuthorizedForDm(nick, cfg) ==
    LET policy == IF cfg.dmPolicy = Absent THEN "pairing" ELSE cfg.dmPolicy
        allowFrom == cfg.allowFrom
    IN CASE policy = "disabled" -> Deny("DMs are disabled")
         [] policy = "open" -> Allow
         [] policy = "pairing" ->
                IF Len(allowFrom) = 0 THEN Deny("Not paired")
                ELSE IF IsInList(nick, allowFrom) THEN Allow
                ELSE Deny("Not paired")
         [] OTHER -> Deny("Unknown policy")

\* the property names a plain object inherits from Object.prototype
ObjectPrototypeNames ==
    {<<"c", "o", "n", "s", "t", "r", "u", "c", "t", "o", "r">>,
     <<"h", "a", "s", "O", "w", "n", "P", "r", "o", "p", "e", "r", "t", "y">>,
     <<"i", "s", "P", "r", "o", "t", "o", "t", "y", "p", "e", "O", "f">>,
     <<"p", "r", "o", "p", "e", "r", "t", "y", "I", "s", "E", "n", "u", "m", "e", "r", "a", "b", "l", "e">>,
     <<"t", "o", "L", "o", "c", "a", "l", "e", "S", "t", "r", "i", "n", "g">>,
     <<"t", "o", "S", "t", "r", "i", "n", "g">>,
     <<"v", "a", "l", "u", "e", "O", "f">>,
     <<"_", "_", "p", "r", "o", "t", "o", "_", "_">>,
     <<"_", "_", "d", "e", "f", "i", "n", "e", "G", "e", "t", "t", "e", "r", "_", "_">>,
     <<"_", "_", "d", "e", "f", "i", "n", "e", "S", "e", "t", "t", "e", "r", "_", "_">>,
     <<"_", "_", "l", "o", "o", "k", "u", "p", "G", "e", "t", "t", "e", "r", "_", "_">>,
     <<"_", "_", "l", "o", "o", "k", "u", "p", "S", "e", "t", "t", "e", "r", "_", "_">>}

\* what such a property holds: a function or an object, truthy, without a
\* `users` property
InheritedProperty == [inherited |-> TRUE]

\* `groups[key]` on the plain object groups: <<value>>, or <<>> for undefined
GroupsLookup(groups, key) ==
    IF key \in DOMAIN groups THEN <<groups[key]>>
    ELSE IF key \in ObjectPrototypeNames THEN <<InheritedProperty>>
    ELSE <<>>

\* `groups[channel] || groups[channel.toLowerCase()]`: <<entry>>, or <<>> when
\* both lookups are undefined
ChannelConfig(channel, groups) ==
    IF GroupsLookup(groups, channel) # <<>> THEN GroupsLookup(groups, channel)
    ELSE GroupsLookup(groups, StrToLowerCase(channel))

\* isInList(nick, channelConfig.users): `entries.some` of undefined throws
UsersListed(nick, entry) ==
    IF "users" \in DOMAIN entry
    THEN [threw |-> FALSE, listed |-> IsInList(nick, entry.users)]
    ELSE [threw |-> TRUE, listed |-> FALSE]

\* variant: an allowlist that lets everyone into a group without an entry
IsAuthorizedForChannelOpenByDefault(nick, channel, cfg) ==
    LET groupPolicy == IF cfg.groupPolicy = Absent THEN "allowlist" ELSE cfg.groupPolicy
        channelConfig == ChannelConfig(channel, cfg.groups)
    IN CASE groupPolicy = "all" -> Allow
         [] groupPolicy = "allowlist" ->
                IF channelConfig = <<>> THEN Allow
                ELSE IF UsersListed(nick, channelConfig[1]).threw THEN Throw(SomeOfUndefined)
                ELSE IF UsersListed(nick, channelConfig[1]).listed THEN Allow
                ELSE Deny("Not in allowlist")
         [] groupPolicy = "denylist" ->
                IF channelConfig = <<>> THEN Allow
                ELSE IF UsersListed(nick, channelConfig[1]).threw THEN Throw(SomeOfUndefined)
                ELSE IF UsersListed(nick, channelConfig[1]).listed THEN Deny("In denylist")
                ELSE Allow
         [] OTHER -> Deny("Unknown policy")

\* isAuthorizedForChannel()
IsAuthorizedForChannel(nick, channel, cfg) ==
    LET groupPolicy == IF cfg.groupPolicy = Absent THEN "allowlist" ELSE cfg.groupPolicy
        channelConfig == ChannelConfig(channel, cfg.groups)
    IN CASE groupPolicy = "all" -> Allow
         [] groupPolicy = "allowlist" ->
                IF channelConfig = <<>> THEN Deny("Channel not configured")
                ELSE IF UsersListed(nick, channelConfig[1]).threw THEN Throw(SomeOfUndefined)
                ELSE IF UsersListed(nick, channelConfig[1]).listed THEN Allow
                ELSE Deny("Not in allowlist")
         [] groupPolicy = "denylist" ->
                IF channelConfig = <<>> THEN Allow
                ELSE IF UsersListed(nick, channelConfig[1]).threw THEN Throw(SomeOfUndefined)
                ELSE IF UsersListed(nick, channelConfig[1]).listed THEN Deny("In denylist")
                ELSE Allow
         [] OTHER -> Deny("Unknown policy")

\* s.startsWith(c) for a one-character c
StartsWith(s, c) == Len(s) > 0 /\ s[1] = c

\* normalize.ts isChannel(): the chat type the monitor assigns is "group"
\* exactly when this holds
IsChannel(target) == StartsWith(target, "#") \/ StartsWith(target, "&")

\* isAuthorized(): `!target.startsWith("#")` selects the DM policy
IsAuthorized(nick, target, cfg) ==
    IF ~(Len(target) > 0 /\ target[1] = "#")
    THEN IsAuthorizedForDm(nick, cfg)
    ELSE IsAuthorizedForChannel(nick, target, cfg)

\* senders, targets and configurations the authorizer is called with
AuthNicks == {<<"a", "l">>, <<"A", "l">>, <<"b", "o">>}
AuthTargets == {<<"#", "a">>, <<"#", "A">>, <<"#", "b">>, <<"&", "a">>, <<"a", "l">>,
                <<"v", "a", "l", "u", "e", "O", "f">>}
AuthLists == {<<>>, <<<<"a", "l">>>>, <<Wildcard>>, <<<<"b", "o">>, <<"A", "L">>>>}
DmPolicies == {"disabled", "open", "pairing", "closed", Absent}
GroupPolicies == {"all", "allowlist", "denylist", "none", Absent}
AuthGroups ==
    {EmptyMap} \cup {[k \in {key} |-> [users |-> us]] :
                        key \in {<<"#", "a">>, <<"#", "A">>}, us \in AuthLists}
AuthInputs == [nick : AuthNicks, target : AuthTargets, dmPolicy : DmPolicies,
               allowFrom : AuthLists, groupPolicy : GroupPolicies, groups : AuthGroups]
NoAuthCall == [fn |-> "none", result |-> Deny(NoReason)]

\* ---- normalize.ts: sanitizeMessage, isValidMessageContent, extractMention ----
\* control characters are written as tokens named by their code: "x00" null,
\* "x01" the CTCP delimiter, "x02" bold, "x03" colour, "x0F" reset, "x16"
\* reverse, "x1D" italic, "x1F" underline, "x7F" delete.
\* IRC_CONTROL_CHARS: [\x00-\x08\x0B\x0C\x0E-\x1F\x7F]; tab, line feed and
\* carriage return are not in the class
ControlChars ==
    {"x00", "x01", "x02", "x03", "x04", "x05", "x06", "x07", "x08",
     "x0B", "x0C",
     "x0E", "x0F", "x10", "x11", "x12", "x13", "x14", "x15", "x16", "x17",
     "x18", "x19", "x1A", "x1B", "x1C", "x1D", "x1E", "x1F",
     "x7F"}
Digits == {"0", "1", "2", "3", "4", "5", "6", "7", "8", "9"}
UpperSet == {UpperCase[i] : i \in 1..Len(UpperCase)}
IsWordChar(c) ==
    \/ c \in Digits
    \/ c = "_"
    \/ \E i \in 1..Len(UpperCase) : c = UpperCase[i] \/ c = LowerCase[i]

\* the length of the run of characters of set S that starts at s[i], at most n
RECURSIVE RunLength(_, _, _, _)
RunLength(s, i, S, n) ==
    IF n = 0 \/ i > Len(s) \/ s[i] \notin S THEN 0
    ELSE 1 + RunLength(s, i + 1, S, n - 1)

\* .replace(IRC_COLOR_CODES, ""): \x03(\d{1,2}(,\d{1,2})?)? from s[i] on
RECURSIVE RemoveColorCodes(_, _)
RemoveColorCodes(s, i) ==
    IF i > Len(s) THEN <<>>
    ELSE IF s[i] # "x03" THEN <<s[i]>> \o RemoveColorCodes(s, i + 1)
    ELSE LET fg == RunLength(s, i + 1, Digits, 2)
             j == i + 1 + fg
             bg == IF fg > 0 /\ j <= Len(s) /\ s[j] = ","
                   THEN RunLength(s, j + 1, Digits, 2) ELSE 0
         IN RemoveColorCodes(s, IF bg > 0 THEN j + 1 + bg ELSE j)

\* sanitizeText(): colour codes, then control characters, then trim()
SanitizeText(s) ==
    Trim(SelectSeq(RemoveColorCodes(s, 1), LAMBDA c : c \notin ControlChars))

\* text.match(CTCP_PATTERN): /^\x01([A-Z]+)\s*(.*?)\x01?$/, as
\* [matched, command, text]; \s* takes the whole run of white space, line
\* feeds included, and what follows must be free of the line terminators `.` does not match
CtcpMatch(s) ==
    LET n == IF Len(s) >= 1 /\ s[1] = "x01"
             THEN RunLength(s, 2, UpperSet, Len(s))
             ELSE 0
        ws == RunLength(s, 2 + n, WhiteSpace, Len(s))
        rest == SliceFrom(s, 1 + n + ws)
        body == IF rest # <<>> /\ rest[Len(rest)] = "x01"
                THEN SubSeq(rest, 1, Len(rest) - 1) ELSE rest
    IN IF n = 0 \/ \E i \in 1..Len(rest) : rest[i] \in {"\n", "\r"}
       THEN [matched |-> FALSE, command |-> <<>>, text |-> <<>>]
       ELSE [matched |-> TRUE, command |-> SubSeq(s, 2, 1 + n), text |-> body]

ActionCommand == <<"A", "C", "T", "I", "O", "N">>

\* sanitizeMessage()
SanitizeMessage(s) ==
    LET m == CtcpMatch(s)
    IN IF m.matched
       THEN IF m.command = ActionCommand
            THEN [text |-> SanitizeText(m.text), isCtcp |-> TRUE,
                  ctcpCommand |-> ActionCommand]
            ELSE [text |-> <<>>, isCtcp |-> TRUE, ctcpCommand |-> m.command]
       ELSE [text |-> SanitizeText(s), isCtcp |-> FALSE, ctcpCommand |-> <<>>]

\* the length limit of isValidMessageContent
MAX_CONTENT_LENGTH == 2000

\* isValidMessageContent()
IsValidMessageContent(text) ==
    /\ ~(Len(text) = 0 \/ Len(Trim(text)) = 0)
    /\ ~(Len(text) > MAX_CONTENT_LENGTH)
    /\ ~(\E i \in 1..Len(text) : text[i] = "x00")

\* s continues at s[i] with name, in any case
NameAt(s, i, name) ==
    /\ i >= 1
    /\ i + Len(name) - 1 <= Len(s)
    /\ \A k \in 1..Len(name) : LowerChar(s[i + k - 1]) = LowerChar(name[k])

\* the length of the match of /^@?name[,:]?\s*/i at the start of s, -1 if none
LeadingMention(s, name) ==
    LET at == IF Len(s) >= 1 /\ s[1] = "@" THEN 1 ELSE 0
        e == at + Len(name)
        sep == IF e + 1 <= Len(s) /\ s[e + 1] \in {",", ":"} THEN 1 ELSE 0
    IN IF NameAt(s, at + 1, name)
       THEN e + sep + RunLength(s, e + sep + 1, WhiteSpace, Len(s))
       ELSE -1

\* \b between s[e - 1] and s[e]: exactly one of the two is a word character
\* (the end of the text is not one)
WordBoundary(s, e) ==
    IsWordChar(s[e - 1]) # (e <= Len(s) /\ IsWordChar(s[e]))

\* s from s[i] on, with every match of /\s@name\b/gi replaced by " "
RECURSIVE ReplaceInnerMentions(_, _, _)
ReplaceInnerMentions(s, i, name) ==
    IF i > Len(s) THEN <<>>
    ELSE LET e == i + 2 + Len(name)
         IN IF /\ s[i] \in WhiteSpace
               /\ i + 1 <= Len(s) /\ s[i + 1] = "@"
               /\ NameAt(s, i + 2, name)
               /\ WordBoundary(s, e)
            THEN <<" ">> \o ReplaceInnerMentions(s, e, name)
            ELSE <<s[i]>> \o ReplaceInnerMentions(s, i + 1, name)

\* .replace(/\s+/g, " ")
RECURSIVE CollapseSpaces(_, _)
CollapseSpaces(s, i) ==
    IF i > Len(s) THEN <<>>
    ELSE IF s[i] \in WhiteSpace
    THEN <<" ">> \o CollapseSpaces(s, i + RunLength(s, i, WhiteSpace, Len(s)))
    ELSE <<s[i]>> \o CollapseSpaces(s, i + 1)

\* extractMention()
ExtractMention(text, name) ==
    LET lead == LeadingMention(text, name)
        t1 == IF lead >= 0 THEN <<" ">> \o SliceFrom(text, lead) ELSE text
        t2 == ReplaceInnerMentions(t1, 1, name)
    IN [mentioned |-> lead >= 0 \/ t2 # t1,
        cleanText |-> Trim(CollapseSpaces(t2, 1))]

\* ---- monitor.ts: handlePrivmsg, and the onMessage callback of channel.ts ----
\* bounds: handlers suspended at once; the limit, the window length and the
\* last clock value of the account the monitor runs for
MaxHandlers == 1
MonitorLimit == 1
MonitorWindow == 1
MonitorTime == 2

\* client.config.nickname
BotNickChars == <<"b", "o", "t">>

\* state.nickname as characters; null is no string
NickChars(n) == CASE n = BotNick -> BotNickChars
                  [] n = "alice" -> <<"a", "l", "i", "c", "e">>
                  [] OTHER -> <<>>

\* "Rate limited. Please wait before sending more messages."
RateLimitNotice ==
    <<"R", "a", "t", "e", " ", "l", "i", "m", "i", "t", "e", "d", ".", " ", "P", "l",
      "e", "a", "s", "e", " ", "w", "a", "i", "t", " ", "b", "e", "f", "o", "r", "e",
      " ", "s", "e", "n", "d", "i", "n", "g", " ", "m", "o", "r", "e", " ", "m", "e",
      "s", "s", "a", "g", "e", "s", ".">>

\* "Error: "
ErrorPrefix ==
    <<"E", "r", "r", "o", "r", ":", " ">>

\* "Agent command failed: "
AgentFailedPrefix ==
    <<"A", "g", "e", "n", "t", " ", "c", "o", "m", "m", "a", "n", "d", " ", "f", "a",
      "i", "l", "e", "d", ":", " ">>

\* "unknown error"
UnknownError ==
    <<"u", "n", "k", "n", "o", "w", "n", " ", "e", "r", "r", "o", "r">>

\* "IRC client not connected" / "IRC client not registered" as characters
NotConnectedChars ==
    <<"I", "R", "C", " ", "c", "l", "i", "e", "n", "t", " ", "n", "o", "t", " ", "c",
      "o", "n", "n", "e", "c", "t", "e", "d">>
NotRegisteredChars ==
    <<"I", "R", "C", " ", "c", "l", "i", "e", "n", "t", " ", "n", "o", "t", " ", "r",
      "e", "g", "i", "s", "t", "e", "r", "e", "d">>

ErrorChars(e) == IF e = "IRC client not connected" THEN NotConnectedChars
                 ELSE NotRegisteredChars

\* received lines: from the bot itself, from an allowed and from another
\* sender; to a channel and to the bot; plain, addressed to the bot, an
\* emote, another CTCP command, blank, formatting codes alone, and a line
\* with bold and italic codes
MonitorNicks == {BotNickChars, <<"a", "l">>, <<"b", "o">>}
MonitorTargets == {<<"#", "a">>, BotNickChars}
MonitorMessages ==
    {<<"h", "i">>,
     <<"b", "o", "t", ":", " ", "h", "i">>,
     <<CtcpDelim, "A", "C", "T", "I", "O", "N", " ", "w", CtcpDelim>>,
     <<CtcpDelim, "V", "E", "R", "S", "I", "O", "N", CtcpDelim>>,
     <<" ">>,
     <<"x03", "4", "x1D", "x7F">>,
     <<"x02", "h", "x02", " ", "x1D", "i", "x1D">>}
NoEvent == [nick |-> <<>>, target |-> <<>>, message |-> <<>>]

\* access configurations of the account: al allowed everywhere and nobody
\* else; bo allowed in direct messages and no channel configured
MonitorConfigs ==
    {[dmPolicy |-> "pairing", allowFrom |-> <<<<"a", "l">>>>, groupPolicy |-> "allowlist",
      groups |-> [k \in {<<"#", "a">>} |-> [users |-> <<<<"a", "l">>>>]]],
     [dmPolicy |-> "pairing", allowFrom |-> <<<<"b", "o">>>>, groupPolicy |-> Absent,
      groups |-> EmptyMap]}

\* what the agent process has printed on stdout when it closes with code
\* 0: JSON with the answer under result.payloads[0].text (and another text
\* under text), JSON with a two-line answer under response, JSON without an
\* answer, JSON whose text is a number, nothing at all, and text that is not
\* JSON
JsonPayloadOk ==
    <<"{", "\"", "r", "e", "s", "u", "l", "t", "\"", ":", "{", "\"", "p", "a", "y",
      "l", "o", "a", "d", "s", "\"", ":", "[", "{", "\"", "t", "e", "x", "t", "\"",
      ":", "\"", "o", "k", "\"", "}", "]", "}", ",", "\"", "t", "e", "x", "t", "\"",
      ":", "\"", "n", "o", "\"", "}">>
JsonResponseLines ==
    <<"{", "\"", "r", "e", "s", "p", "o", "n", "s", "e", "\"", ":", "\"", "a", "\\",
      "n", "b", "\"", "}">>
JsonNoAnswer ==
    <<"{", "}">>
JsonTextNumber ==
    <<"{", "\"", "t", "e", "x", "t", "\"", ":", " ", "5", "}">>
NotJson ==
    <<"o", "o", "p", "s">>
AgentStdout == {JsonPayloadOk \o <<"\n">>, JsonResponseLines, JsonNoAnswer, JsonTextNumber,
                <<>>, NotJson}

\* what it has printed on stderr when it closes with another code
AgentStderr == {<<>>, <<"E", "1">>}

\* JavaScript values: undefined, a string, a number
Undefined == [type |-> "undefined"]
Str(chars) == [type |-> "string", value |-> chars]
Num(n) == [type |-> "number", value |-> n]

\* a value in a condition: "" and 0 and undefined are falsy
Truthy(v) == CASE v.type = "string" -> v.value # <<>>
               [] v.type = "number" -> v.value # 0
               [] OTHER -> FALSE

\* "Unexpected end of JSON input"
UnexpectedEnd ==
    <<"U", "n", "e", "x", "p", "e", "c", "t", "e", "d", " ", "e", "n", "d", " ", "o",
      "f", " ", "J", "S", "O", "N", " ", "i", "n", "p", "u", "t">>

\* `Unexpected token 'o', "oops" is not valid JSON`: the SyntaxError of
\* JSON.parse for a short text that starts with a character no JSON value
\* starts with
UnexpectedToken(text) ==
    <<"U", "n", "e", "x", "p", "e", "c", "t", "e", "d", " ", "t", "o", "k", "e", "n",
      " ", "'">>
        \o <<text[1]>> \o <<"'", ",", " ", "\"">> \o text \o
        <<"\"", " ", "i", "s", " ", "n", "o", "t", " ", "v", "a", "l", "i", "d", " ",
          "J", "S", "O", "N">>

\* "response.slice is not a function"
SliceNotFunction ==
    <<"r", "e", "s", "p", "o", "n", "s", "e", ".", "s", "l", "i", "c", "e", " ", "i",
      "s", " ", "n", "o", "t", " ", "a", " ", "f", "u", "n", "c", "t", "i", "o", "n">>

\* "spawn openclaw ENOENT"
SpawnError ==
    <<"s", "p", "a", "w", "n", " ", "o", "p", "e", "n", "c", "l", "a", "w", " ", "E",
      "N", "O", "E", "N", "T">>

\* "Agent command timed out"
TimedOut ==
    <<"A", "g", "e", "n", "t", " ", "c", "o", "m", "m", "a", "n", "d", " ", "t", "i",
      "m", "e", "d", " ", "o", "u", "t">>

\* JSON.parse on the texts of AgentStdout, as what the close handler reads
\* from the result: json.result?.payloads?.[0]?.text, json.text and
\* json.response
JsonParse(text) ==
    CASE text = JsonPayloadOk ->
             [threw |-> FALSE, payloadText |-> Str(<<"o", "k">>),
              text |-> Str(<<"n", "o">>), response |-> Undefined]
      [] text = JsonResponseLines ->
             [threw |-> FALSE, payloadText |-> Undefined, text |-> Undefined,
              response |-> Str(<<"a", "\n", "b">>)]
      [] text = JsonNoAnswer ->
             [threw |-> FALSE, payloadText |-> Undefined, text |-> Undefined,
              response |-> Undefined]
      [] text = JsonTextNumber ->
             [threw |-> FALSE, payloadText |-> Undefined, text |-> Num(5),
              response |-> Undefined]
      [] text = <<>> -> [threw |-> TRUE, message |-> UnexpectedEnd]
      [] OTHER -> [threw |-> TRUE, message |-> UnexpectedToken(text)]

\* channel.ts 72-82: the answer taken from the parsed output, "" when none
\* of the three places holds a truthy value
AgentResponse(json) ==
    IF Truthy(json.payloadText) THEN json.payloadText
    ELSE IF Truthy(json.text) THEN json.text
    ELSE IF Truthy(json.response) THEN json.response
    ELSE Str(<<>>)

\* variant: no authorization check in the handler
AuthGateOpen(ev) == TRUE

\* monitor.ts 43-48: isAuthorized(nick, target, client.config)
AuthGate(ev) == IsAuthorized(ev.nick, ev.target, accessConfig).authorized

\* variant: a line that does not mention the bot is dropped
GateVerdictRequiresMention(ev) ==
    IF ev.nick = NickChars(state.nickname) THEN "self"
    ELSE LET sanitized == SanitizeMessage(ev.message)
         IN IF sanitized.isCtcp /\ sanitized.ctcpCommand # ActionCommand THEN "ctcp"
            ELSE IF ~IsValidMessageContent(sanitized.text) THEN "invalid"
            ELSE IF ~AuthGate(ev) THEN "unauthorized"
            ELSE IF ~ExtractMention(sanitized.text, BotNickChars).mentioned
            THEN "unmentioned"
            ELSE "pass"

\* monitor.ts 22-48: the early returns before the rate limiter
GateVerdict(ev) ==
    IF ev.nick = NickChars(state.nickname) THEN "self"
    ELSE LET sanitized == SanitizeMessage(ev.message)
         IN IF sanitized.isCtcp /\ sanitized.ctcpCommand # ActionCommand THEN "ctcp"
            ELSE IF ~IsValidMessageContent(sanitized.text) THEN "invalid"
            ELSE IF ~AuthGate(ev) THEN "unauthorized"
            ELSE "pass"

\* variant: a notice for every limited line
RateGateAlwaysNotifies(r) ==
    IF r.limited THEN "notify" ELSE "forward"

\* monitor.ts 53-60: what follows the isRateLimited result
RateGate(r) ==
    IF r.limited
    THEN IF r.shouldNotify THEN "notify" ELSE "silent"
    ELSE "forward"

\* monitor.ts 57 and 84: the target of a notice or a reply
ReplyTarget(ev) == IF IsChannel(ev.target) THEN ev.target ELSE ev.nick

\* monitor.ts 65-73: the text handed to the agent
MessageText(ev) ==
    LET sanitized == SanitizeMessage(ev.message)
        m == ExtractMention(sanitized.text, BotNickChars)
        body == IF m.cleanText # <<>> THEN m.cleanText ELSE sanitized.text
    IN IF sanitized.ctcpCommand = ActionCommand
       THEN <<"*", " ">> \o ev.nick \o <<" ">> \o body
       ELSE body

\* sendMessageIrc(client, target, text) up to its first await or its end,
\* as the record of the call: status "threw", "delay" or "done"
SendCall(target, text) ==
    LET pre == SendPrecondition
        call == [SenderIdle EXCEPT !.op = "sendMessageIrc", !.phase = "call",
                                   !.target = target]
    IN IF pre # "ok"
       THEN [call EXCEPT !.status = "threw", !.error = pre]
       ELSE SendLoop([call EXCEPT !.chunks = AllChunks(text)])

\* a sendToAgent call of a handler: the send record of its reply, and
\* whether its promise has been settled (a later resolve or reject is lost)
Handler(s, settled) ==
    [op |-> s.op, phase |-> s.phase, status |-> s.status, error |-> s.error,
     target |-> s.target, chunks |-> s.chunks, next |-> s.next, said |-> s.said,
     settled |-> settled]

\* a handler waiting for the agent process
AwaitingAgent(ev) ==
    Handler([SenderIdle EXCEPT !.op = "onMessage", !.status = "agent",
                               !.target = ReplyTarget(ev)], FALSE)

\* channel.ts 443-450: the catch block, `Error: ${errorMessage}` sent as a
\* reply and a failure of that send ignored
ErrorReply(target, errorMessage) ==
    LET s == SendCall(target, ErrorPrefix \o errorMessage)
    IN IF s.status = "threw" THEN [s EXCEPT !.status = "done"] ELSE s

\* reject(err) in sendToAgent: the first settlement of the promise runs the
\* catch block of the onMessage callback, a later one is lost
Reject(h, message) ==
    IF h.settled THEN [h EXCEPT !.status = "done"]
    ELSE Handler(ErrorReply(h.target, message), TRUE)

\* channel.ts 69-91: the close handler for code 0, as the error it rejects
\* with (none when it does not reject), the handler it leaves and the kind
\* of step: the answer could not be read ("agent garbled"), replyFn threw
\* because the client is not connected ("reply failed"), or neither
\* ("agent answer"); ctx.log is provided, so a truthy answer that is no
\* string fails at response.slice
AgentAnswer(h, stdout) ==
    LET json == JsonParse(Trim(stdout))
    IN IF json.threw
       THEN [kind |-> "agent garbled", error |-> json.message, h |-> Reject(h, json.message)]
       ELSE LET response == AgentResponse(json)
            IN IF ~Truthy(response)
               THEN [kind |-> "agent answer", error |-> <<>>, h |-> [h EXCEPT !.status = "done"]]
               ELSE IF response.type # "string"
               THEN [kind |-> "agent garbled", error |-> SliceNotFunction,
                     h |-> Reject(h, SliceNotFunction)]
               ELSE LET s == SendCall(h.target, response.value)
                    IN IF s.status = "threw"
                       THEN [kind |-> "reply failed", error |-> ErrorChars(s.error),
                             h |-> Reject(h, ErrorChars(s.error))]
                       ELSE [kind |-> "agent answer", error |-> <<>>,
                             h |-> Handler(s, h.settled)]

\* channel.ts 66: the message of the Error for another exit code with this
\* text on stderr
AgentErrorMessage(stderr) ==
    AgentFailedPrefix \o (IF stderr = <<>> THEN UnknownError ELSE stderr)

\* channel.ts 63-67 and 443-450: the agent process has closed with another
\* code and this text on stderr
AgentFailure(h, stderr) == Reject(h, AgentErrorMessage(stderr))

\* the handlers after handler i has made a step to s: it stays while it
\* waits for the inter-chunk delay and is gone when it has returned
Continue(i, s) ==
    IF s.status = "delay"
    THEN [handlers EXCEPT ![i] = [s EXCEPT !.said = <<>>]]
    ELSE SubSeq(handlers, 1, i - 1) \o SubSeq(handlers, i + 1, Len(handlers))

NoMonitorStep == [kind |-> "none", event |-> NoEvent, slot |-> 0, forwarded |-> FALSE,
                  text |-> <<>>, said |-> <<>>, error |-> <<>>]

\* ---- channel.ts 382-478: gateway.startAccount and the stop handle ----
\* bound: clients created in one run
MaxClients == 3

Accounts == {"main", "alt"}
NoClient == 0
NoGatewayStep == [op |-> "none", account |-> "", client |-> NoClient, threw |-> FALSE]

\* client.disconnect() on client id
Destroy(cs, id) == [cs EXCEPT ![id].destroyed = TRUE]

\* channel.ts 467-472: the stop callback made for client id of account a,
\* as the maps and clients it leaves
StopCallback(g, a, id) ==
    [clients |-> Destroy(g.clients, id),
     activeBuses |-> [g.activeBuses EXCEPT ![a] = NoClient],
     stopCallbacks |-> [g.stopCallbacks EXCEPT ![a] = NoClient]]

\* channel.ts 385-395: an existing stop callback of the account is called
\* and both map entries are deleted
CleanUpExisting(g, a) ==
    IF g.stopCallbacks[a] # NoClient THEN StopCallback(g, a, g.stopCallbacks[a]) ELSE g

\* channel.ts 115-122: the loop of disconnectAll() over the accounts that
\* have a stop callback
RECURSIVE StopEach(_, _)
StopEach(g, accounts) ==
    IF accounts = {} THEN g
    ELSE LET a == CHOOSE x \in accounts : TRUE
         IN StopEach(StopCallback(g, a, g.stopCallbacks[a]), accounts \ {a})

\* the client of an account is started and not stopped
Live(c) == ~c.destroyed

\* ---- send.ts 14-73: the arguments chunkMessage is called with ----
\* bounds: the longest text and the largest limit
MaxTextLen == 5
MaxLimit == 3

\* two letters, so that an exchange of two characters changes the text, and
\* a white space character that is not skipped at a split point
ChunkAlphabet == {"a", "b", " ", "\n", "x0B"}

\* every text over the alphabet of length at most n
RECURSIVE TextsUpTo(_)
TextsUpTo(n) ==
    IF n = 0 THEN {<<>>}
    ELSE LET shorter == TextsUpTo(n - 1)
         IN shorter \cup {Append(t, c) : t \in {x \in shorter : Len(x) = n - 1},
                                          c \in ChunkAlphabet}

ChunkCallOf(text, maxLength) ==
    [text |-> text, maxLength |-> maxLength, phase |-> "called", remaining |-> <<>>,
     chunks |-> <<>>, iterations |-> 0]

\* ---- initial states of the components that a specification leaves idle ----
SenderInit == sender = SenderIdle /\ sending = <<>>

RateInitWith(configs) ==
    /\ rateLimits = EmptyMap
    /\ cleanupTimer = FALSE
    /\ now = 0
    /\ rateConfig \in configs
    /\ rateOut = NoRateCall
    /\ window = EmptyMap
    /\ unswept = [limits |-> EmptyMap, limited |-> FALSE, shouldNotify |-> FALSE]

AuthInitWith(inputs) ==
    /\ authIn \in inputs
    /\ authOut = NoAuthCall

RateIdle == RateInitWith({DEFAULT_RATE_LIMIT})

AuthIdle == AuthInitWith({[nick |-> <<>>, target |-> <<>>, dmPolicy |-> Absent,
                           allowFrom |-> <<>>, groupPolicy |-> Absent,
                           groups |-> EmptyMap]})

MonitorInitWith(configs) ==
    /\ accessConfig \in configs
    /\ handlers = <<>>
    /\ monOut = NoMonitorStep

MonitorIdle == MonitorInitWith({[dmPolicy |-> Absent, allowFrom |-> <<>>,
                                 groupPolicy |-> Absent, groups |-> EmptyMap]})

GatewayInit ==
    /\ clients = <<>>
    /\ activeBuses = [a \in Accounts |-> NoClient]
    /\ stopCallbacks = [a \in Accounts |-> NoClient]
    /\ status = [a \in Accounts |-> "unset"]
    /\ handles = {}
    /\ gwOut = NoGatewayStep

ChunkInitWith(texts, limits) ==
    \E text \in texts, maxLength \in limits : chunker = ChunkCallOf(text, maxLength)

ChunkIdle == ChunkInitWith({<<>>}, {MAX_MESSAGE_LENGTH})

OthersIdle == SenderInit /\ RateIdle /\ AuthIdle /\ MonitorIdle /\ GatewayInit /\ ChunkIdle

\* ---- initial state: createIrcClient() ----
InitWith(configs, flags) ==
    /\ config \in configs
    /\ allowInsecureNickServ \in flags
    /\ state = [connected |-> FALSE, registered |-> FALSE, nickname |-> NoNick,
                channels |-> {}, lastError |-> NoError, reconnectAttempts |-> 0]
    /\ reconnectTimeout = NoTimer
    /\ shouldReconnect = TRUE
    /\ isDestroyed = FALSE
    /\ timers = <<>>
    /\ nextTimerId = 1
    /\ promises = <<>>
    /\ listeners = <<>>
    /\ connectCalls = 0
    /\ transport = "idle"
    /\ lastEvent = "create"
    /\ wire = <<>>
    /\ calls = <<>>
    /\ thrown = FALSE
    /\ fatalReported = FALSE

\* an account with a NickServ password, no SASL credentials and no opt-in flag
ClientInit == InitWith([sasl : {FALSE}, nickservPassword : {TRUE},
                          channels : ChannelLists], {FALSE})

Init == ClientInit /\ OthersIdle

\* every combination of credentials and opt-in flag, several channel lists
InitAuth == /\ InitWith([sasl : BOOLEAN, nickservPassword : BOOLEAN,
                         channels : AuthChannelLists], BOOLEAN)
            /\ OthersIdle

\* the doConnect() calls explored: MaxConnects of them, and one more after the
\* fatal error has been reported, so that what follows the report is explored
MayConnect ==
    \/ Len(promises) < MaxConnects
    \/ fatalReported /\ Len(promises) = MaxConnects

\* variant: connect() without the isDestroyed check
ConnectNeverThrows == FALSE

\* connect(): `if (isDestroyed) throw`
ConnectThrows == isDestroyed

\* ---- wrapper.connect() ----
Connect ==
    /\ isDestroyed \/ connectCalls < MaxConnectCalls
    /\ connectCalls' = IF isDestroyed THEN connectCalls ELSE connectCalls + 1
    /\ UNCHANGED <<config, allowInsecureNickServ, isDestroyed>>
    /\ UNCHANGED <<senderVars, rateVars, authVars, monitorVars, gatewayVars, chunkVars>>
    /\ IF ConnectThrows
       THEN /\ thrown' = TRUE
            /\ lastEvent' = "connect"
            /\ wire' = <<>>
            /\ calls' = <<>>
            /\ UNCHANGED <<state, reconnectTimeout, shouldReconnect, timers, nextTimerId,
                           promises, listeners, transport, fatalReported>>
       ELSE /\ isDestroyed \/ MayConnect
            /\ thrown' = FALSE
            /\ shouldReconnect' = TRUE
            /\ Commit(DoConnect([Ctx EXCEPT !.state.reconnectAttempts = 0], "connect"),
                      "connect")

\* ---- wrapper.disconnect() ----
Disconnect ==
    /\ shouldReconnect' = FALSE
    /\ isDestroyed' = TRUE
    /\ IF reconnectTimeout # NoTimer
       THEN /\ timers' = SelectSeq(timers, LAMBDA t : t.id # reconnectTimeout)
            /\ reconnectTimeout' = NoTimer
       ELSE UNCHANGED <<timers, reconnectTimeout>>
    /\ wire' = IF state.connected THEN <<QuitCmd>> ELSE <<>>
    /\ state' = [state EXCEPT !.connected = FALSE, !.registered = FALSE, !.channels = {}]
    /\ listeners' = <<>>
    /\ calls' = <<>>
    /\ thrown' = FALSE
    /\ lastEvent' = "disconnect"
    /\ UNCHANGED <<config, allowInsecureNickServ, nextTimerId, promises, connectCalls,
                   transport, fatalReported>>
    /\ UNCHANGED <<senderVars, rateVars, authVars, monitorVars, gatewayVars, chunkVars>>

\* a pending timer is due before another one that was set no earlier with
\* no shorter delay
Due(t) == \A u \in 1..Len(timers) :
              (timers[u].id < t.id) => (timers[u].delay > t.delay)

\* variant: the timer callback without `if (isDestroyed) return`
TimerCallbackUnguarded(m) ==
    LET m1 == DoConnect(m, "timer")
    IN IF m1.promises[Len(m1.promises)].outcome = "rejected"
       THEN ScheduleReconnect(m1)
       ELSE m1

\* the setTimeout callback: `if (isDestroyed) return`, then
\* `try { await doConnect() } catch { scheduleReconnect() }`
TimerCallback(m) ==
    IF isDestroyed
    THEN m
    ELSE LET m1 == DoConnect(m, "timer")
         IN IF m1.promises[Len(m1.promises)].outcome = "rejected"
            THEN ScheduleReconnect(m1)
            ELSE m1

\* ---- a pending reconnect timer fires ----
TimerFire ==
    \E i \in 1..Len(timers) :
        LET t == timers[i]
        IN /\ Due(t)
           /\ isDestroyed \/ MayConnect
           /\ thrown' = FALSE
           /\ UNCHANGED <<config, allowInsecureNickServ, shouldReconnect, isDestroyed,
                          connectCalls>>
           /\ UNCHANGED <<senderVars, rateVars, authVars, monitorVars, gatewayVars, chunkVars>>
           /\ Commit(TimerCallback([Ctx EXCEPT !.timers =
                                       SelectSeq(timers, LAMBDA u : u.id # t.id)]),
                     "timer")

\* ---- transport events ----
Event(ev, nextTransport) ==
    /\ thrown' = FALSE
    /\ UNCHANGED <<config, allowInsecureNickServ, shouldReconnect, isDestroyed, connectCalls>>
    /\ UNCHANGED <<senderVars, rateVars, authVars, monitorVars, gatewayVars, chunkVars>>
    /\ Commit(Deliver([Ctx EXCEPT !.transport = nextTransport], ev), ev.type)

Registered ==
    /\ transport = "connecting"
    /\ Event([type |-> "registered"], "up")

SocketClose ==
    /\ transport # "idle"
    /\ Event([type |-> "socket close"], "idle")

SocketErrorEvent ==
    /\ transport # "idle"
    /\ \E e \in SocketErrors : Event([type |-> "socket error", message |-> e], transport)

IrcError ==
    /\ transport # "idle"
    /\ \E r \in IrcReasons : Event([type |-> "irc error", reason |-> r], transport)

Join ==
    /\ transport = "up"
    /\ \E ch \in ChannelNames, n \in Nicks :
           Event([type |-> "join", channel |-> ch, nick |-> n], transport)

Part ==
    /\ transport = "up"
    /\ \E ch \in ChannelNames, n \in Nicks :
           Event([type |-> "part", channel |-> ch, nick |-> n], transport)

Privmsg ==
    /\ transport = "up"
    /\ Event([type |-> "privmsg"], transport)

\* the server reports a change of nickname
Nick ==
    /\ transport = "up"
    /\ \E n \in Nicks, new \in Nicks :
           Event([type |-> "nick", nick |-> n, new_nick |-> new], transport)

\* what a call of the wrapper leaves alone
WrapperFrame ==
    /\ calls' = <<>>
    /\ thrown' = FALSE
    /\ UNCHANGED <<config, allowInsecureNickServ, reconnectTimeout, shouldReconnect,
                   isDestroyed, timers, nextTimerId, promises, listeners, connectCalls,
                   transport, fatalReported>>
    /\ UNCHANGED <<senderVars, rateVars, authVars, monitorVars, gatewayVars, chunkVars>>

\* ---- wrapper.join(channel) ----
WrapperJoin ==
    /\ \E ch \in ChannelNames :
           wire' = IF state.connected /\ state.registered THEN <<JoinCmd(ch)>> ELSE <<>>
    /\ lastEvent' = "wrapper.join"
    /\ UNCHANGED state
    /\ WrapperFrame

\* ---- wrapper.part(channel) ----
WrapperPart ==
    /\ \E ch \in ChannelNames :
           IF state.connected /\ state.registered
           THEN /\ wire' = <<PartCmd(ch)>>
                /\ state' = [state EXCEPT !.channels = @ \ {ToLowerCase(ch)}]
           ELSE /\ wire' = <<>>
                /\ UNCHANGED state
    /\ lastEvent' = "wrapper.part"
    /\ WrapperFrame

Next ==
    \/ Connect
    \/ Disconnect
    \/ TimerFire
    \/ Registered
    \/ SocketClose
    \/ SocketErrorEvent
    \/ IrcError
    \/ Join
    \/ Part
    \/ Privmsg
    \/ Nick
    \/ WrapperJoin
    \/ WrapperPart

Spec == Init /\ [][Next]_vars

\* the connect / register / close / reconnect cycle alone, over every
\* combination of credentials
NextAuth ==
    \/ Connect
    \/ Disconnect
    \/ TimerFire
    \/ Registered
    \/ SocketClose

SpecAuth == InitAuth /\ [][NextAuth]_vars

TypeOK ==
    /\ state.reconnectAttempts \in 0..MAX_RECONNECT_ATTEMPTS
    /\ transport \in {"idle", "connecting", "up"}
    /\ Len(promises) <= MaxConnects + 1
\* ---- observations used by the properties ----
HasCmd(w, c) == \E i \in 1..Len(w) : w[i] = c
Joins(w) == SelectSeq(w, LAMBDA c : c.cmd = "JOIN")
Handled == listeners # <<>>
\* connect() has been called once on this wrapper: every later connection
\* attempt is a reconnect the wrapper scheduled itself
OneConnectCall == connectCalls = 1
ConnectPromises == {i \in 1..Len(promises) : promises[i].owner = "connect"}

\* the joins of w are the configured channels in listed order, once per
\* listener that handled the event
JoinsInListedOrder(w) ==
    LET js == Joins(w)
        n  == Len(config.channels)
    IN /\ Len(js) = n * Len(listeners)
       /\ \A i \in 1..Len(js) : js[i] = JoinCmd(config.channels[((i - 1) % n) + 1])

\* ---- sendMessageIrc(client, target, text), up to its first await ----
SendMessageIrc ==
    /\ \E target \in SendTargets, text \in SendTexts :
           LET pre == SendPrecondition
               call == [SenderIdle EXCEPT !.op = "sendMessageIrc", !.phase = "call",
                                          !.target = target]
           IN \E s \in {IF pre # "ok"
                        THEN [call EXCEPT !.status = "threw", !.error = pre]
                        ELSE SendLoop([call EXCEPT !.chunks = AllChunks(text)])} :
                  /\ s.status = "delay" => Len(sending) < MaxSending
                  /\ sender' = s
                  /\ sending' = IF s.status = "delay" THEN Append(sending, s) ELSE sending
    /\ UNCHANGED <<clientVars, rateVars, authVars, monitorVars, gatewayVars, chunkVars>>

\* ---- the inter-chunk delay of a sendMessageIrc call elapses ----
SendResume ==
    /\ \E i \in 1..Len(sending) :
           \E s \in {SendLoop([sending[i] EXCEPT !.phase = "resume"])} :
               /\ sender' = s
               /\ sending' = IF s.status = "delay"
                             THEN [sending EXCEPT ![i] = s]
                             ELSE SubSeq(sending, 1, i - 1)
                                      \o SubSeq(sending, i + 1, Len(sending))
    /\ UNCHANGED <<clientVars, rateVars, authVars, monitorVars, gatewayVars, chunkVars>>

\* ---- sendActionIrc(client, target, action) ----
SendActionIrc ==
    /\ UNCHANGED sending
    /\ \E target \in SendTargets, action \in SendActions :
           LET pre == SendPrecondition
               call == [SenderIdle EXCEPT !.op = "sendActionIrc", !.phase = "call",
                                          !.target = target]
           IN sender' = IF pre # "ok"
                        THEN [call EXCEPT !.status = "threw", !.error = pre]
                        ELSE [WrapperSay([call EXCEPT !.chunks = <<CtcpAction(action)>>],
                                         CtcpAction(action))
                                 EXCEPT !.next = 2, !.status = "done"]
    /\ UNCHANGED <<clientVars, rateVars, authVars, monitorVars, gatewayVars, chunkVars>>

\* the sender next to the connect / register / close / reconnect cycle
NextSend ==
    \/ Connect
    \/ Disconnect
    \/ TimerFire
    \/ Registered
    \/ SocketClose
    \/ SendMessageIrc
    \/ SendResume
    \/ SendActionIrc

SpecSend == Init /\ [][NextSend]_vars

\* ---- isRateLimited(nick, config) ----
IsRateLimited ==
    \E nick \in RateNicks :
        LET key == NormalizeKey(nick)
            r == RateCheck(rateLimits, key, now, rateConfig)
        IN /\ cleanupTimer' = TRUE
           /\ rateLimits' = r.limits
           /\ rateOut' = [nick |-> nick, key |-> key, limited |-> r.limited,
                          shouldNotify |-> r.shouldNotify, called |-> TRUE]
           /\ window' = Observe(window, key, now, rateConfig)
           /\ unswept' = RateCheck(unswept.limits, key, now, rateConfig)
           /\ UNCHANGED <<now, rateConfig, clientVars, senderVars, authVars, monitorVars, gatewayVars, chunkVars>>

\* ---- Date.now() advances ----
TimePasses ==
    /\ now < MaxTime
    /\ now' = now + 1
    /\ UNCHANGED <<rateLimits, cleanupTimer, rateConfig, rateOut, window, unswept,
                   clientVars, senderVars, authVars, monitorVars, gatewayVars, chunkVars>>

\* ---- resetRateLimit(nick): the entry of the normalized key is deleted;
\* the caller's window of the key ends with it ----
ResetRateLimit ==
    \E nick \in RateNicks :
        LET key == NormalizeKey(nick)
        IN /\ rateLimits' = MapDelete(rateLimits, key)
           /\ window' = MapDelete(window, key)
           /\ unswept' = [unswept EXCEPT !.limits = MapDelete(@, key)]
           /\ UNCHANGED <<cleanupTimer, now, rateConfig, rateOut,
                          clientVars, senderVars, authVars, monitorVars, gatewayVars, chunkVars>>

\* ---- clearAllRateLimits(): the map is emptied and the cleanup interval
\* cleared ----
ClearAllRateLimits ==
    /\ rateLimits' = EmptyMap
    /\ cleanupTimer' = FALSE
    /\ window' = EmptyMap
    /\ unswept' = [unswept EXCEPT !.limits = EmptyMap]
    /\ UNCHANGED <<now, rateConfig, rateOut,
                   clientVars, senderVars, authVars, monitorVars, gatewayVars, chunkVars>>

NextRate ==
    \/ IsRateLimited
    \/ TimePasses
    \/ ResetRateLimit
    \/ ClearAllRateLimits

InitRate == ClientInit /\ SenderInit /\ RateInitWith(RateConfigs) /\ AuthIdle /\ MonitorIdle /\ GatewayInit /\ ChunkIdle

SpecRate == InitRate /\ [][NextRate]_vars

\* ---- the cleanup interval of ensureCleanupTimer() fires ----
Sweep ==
    /\ cleanupTimer
    /\ rateLimits' = SweepMap(rateLimits, now)
    /\ UNCHANGED <<cleanupTimer, now, rateConfig, rateOut, window, unswept,
                   clientVars, senderVars, authVars, monitorVars, gatewayVars, chunkVars>>

\* the checks with the sweep running at any point between them
NextSweep ==
    \/ IsRateLimited
    \/ TimePasses
    \/ Sweep
    \/ ResetRateLimit
    \/ ClearAllRateLimits

SpecSweep == InitRate /\ [][NextSweep]_vars

\* ---- the authorization functions applied to the drawn arguments ----
AuthorizeDm ==
    /\ authOut' = [fn |-> "isAuthorizedForDm",
                   result |-> IsAuthorizedForDm(authIn.nick, authIn)]
    /\ UNCHANGED <<authIn, clientVars, senderVars, rateVars, monitorVars, gatewayVars, chunkVars>>

AuthorizeChannel ==
    /\ authOut' = [fn |-> "isAuthorizedForChannel",
                   result |-> IsAuthorizedForChannel(authIn.nick, authIn.target, authIn)]
    /\ UNCHANGED <<authIn, clientVars, senderVars, rateVars, monitorVars, gatewayVars, chunkVars>>

Authorize ==
    /\ authOut' = [fn |-> "isAuthorized",
                   result |-> IsAuthorized(authIn.nick, authIn.target, authIn)]
    /\ UNCHANGED <<authIn, clientVars, senderVars, rateVars, monitorVars, gatewayVars, chunkVars>>

NextPolicy ==
    \/ AuthorizeDm
    \/ AuthorizeChannel
    \/ Authorize

InitPolicy == ClientInit /\ SenderInit /\ RateIdle /\ AuthInitWith(AuthInputs) /\ MonitorIdle /\ GatewayInit /\ ChunkIdle

SpecPolicy == InitPolicy /\ [][NextPolicy]_vars

\* ---- a PRIVMSG arrives: handlePrivmsg(event) up to its first await ----
\* (the wrapper's own privmsg listener calls the no-op onMessage of
\* channel.ts 414 and changes nothing)
HandlePrivmsg ==
    /\ transport = "up"
    /\ ~isDestroyed
    /\ \E nick \in MonitorNicks, target \in MonitorTargets, message \in MonitorMessages :
           LET ev == [nick |-> nick, target |-> target, message |-> message]
               key == NormalizeKey(nick)
           IN \E verdict \in {GateVerdict(ev)} :
                  IF verdict # "pass"
                  THEN /\ monOut' = [NoMonitorStep EXCEPT !.kind = "privmsg", !.event = ev]
                       /\ UNCHANGED <<rateLimits, cleanupTimer, window, unswept, handlers>>
                  ELSE \E r \in {RateCheck(rateLimits, key, now, rateConfig)} :
                       \E gate \in {RateGate(r)} :
                           /\ gate = "forward" => Len(handlers) < MaxHandlers
                           /\ rateLimits' = r.limits
                           /\ cleanupTimer' = TRUE
                           /\ window' = Observe(window, key, now, rateConfig)
                           /\ unswept' = RateCheck(unswept.limits, key, now, rateConfig)
                           /\ handlers' = IF gate = "forward"
                                          THEN Append(handlers, AwaitingAgent(ev))
                                          ELSE handlers
                           /\ monOut' = [NoMonitorStep EXCEPT
                                  !.kind = "privmsg",
                                  !.event = ev,
                                  !.forwarded = (gate = "forward"),
                                  !.text = IF gate = "forward" THEN MessageText(ev) ELSE <<>>,
                                  !.said = IF gate = "notify"
                                           THEN SendCall(ReplyTarget(ev), RateLimitNotice).said
                                           ELSE <<>>]
    /\ UNCHANGED <<now, rateConfig, rateOut, accessConfig>>
    /\ UNCHANGED <<clientVars, senderVars, authVars, gatewayVars, chunkVars>>

\* the step of handler i that ends at s
HandlerStep(i, kind, s, error) ==
    /\ \E after \in {s} :
           /\ handlers' = Continue(i, after)
           /\ monOut' = [NoMonitorStep EXCEPT !.kind = kind, !.slot = i,
                                              !.said = after.said, !.error = error]
    /\ UNCHANGED <<accessConfig, clientVars, senderVars, rateVars, authVars, gatewayVars, chunkVars>>

\* ---- the agent process of a handler closes with code 0 ----
AgentResponds ==
    \E i \in 1..Len(handlers), stdout \in AgentStdout :
        /\ handlers[i].status = "agent"
        /\ \E a \in {AgentAnswer(handlers[i], stdout)} :
               HandlerStep(i, a.kind, a.h, a.error)

\* ---- the agent process of a handler closes with another code ----
AgentFails ==
    \E i \in 1..Len(handlers), stderr \in AgentStderr :
        /\ handlers[i].status = "agent"
        /\ HandlerStep(i, "agent failure", AgentFailure(handlers[i], stderr),
                       AgentErrorMessage(stderr))

\* ---- the agent process of a handler emits 'error': it could not be
\* spawned (the close that follows has a code other than 0 and rejects a
\* promise already settled) ----
AgentSpawnError ==
    \E i \in 1..Len(handlers) :
        /\ handlers[i].status = "agent"
        /\ ~handlers[i].settled
        /\ HandlerStep(i, "agent error", Reject(handlers[i], SpawnError), SpawnError)

\* ---- the 120000 ms timer of a sendToAgent call fires before its promise
\* is settled: the process is killed (it closes later, if it still runs)
\* and the promise rejected; the timer has no clock in the model, and once
\* the promise is settled its firing changes nothing ----
AgentTimeout ==
    \E i \in 1..Len(handlers) :
        /\ ~handlers[i].settled
        /\ \E s \in {ErrorReply(handlers[i].target, TimedOut)} :
               /\ handlers' = [handlers EXCEPT ![i].settled = TRUE]
               /\ monOut' = [NoMonitorStep EXCEPT !.kind = "agent timeout", !.slot = i,
                                                  !.said = s.said, !.error = TimedOut]
        /\ UNCHANGED <<accessConfig, clientVars, senderVars, rateVars, authVars, gatewayVars, chunkVars>>

\* ---- the inter-chunk delay of a handler's reply elapses ----
ReplyResume ==
    \E i \in 1..Len(handlers) :
        /\ handlers[i].status = "delay"
        /\ HandlerStep(i, "resume", SendLoop([handlers[i] EXCEPT !.phase = "resume"]), <<>>)

\* ---- Date.now() advances, for the monitored account ----
MonitorTick ==
    /\ now < MonitorTime
    /\ TimePasses

NextMonitor ==
    \/ Connect
    \/ Registered
    \/ HandlePrivmsg
    \/ AgentResponds
    \/ AgentFails
    \/ AgentSpawnError
    \/ AgentTimeout
    \/ ReplyResume
    \/ SocketClose
    \/ MonitorTick

InitMonitor ==
    /\ ClientInit
    /\ SenderInit
    /\ RateInitWith({[maxRequests |-> MonitorLimit, windowMs |-> MonitorWindow]})
    /\ AuthIdle
    /\ MonitorInitWith(MonitorConfigs)
    /\ GatewayInit
    /\ ChunkIdle

SpecMonitor == InitMonitor /\ [][NextMonitor]_vars

\* ---- gateway.startAccount(ctx), up to `await client.connect()` ----
StartAccount ==
    \E a \in Accounts, configured \in BOOLEAN :
        LET g == CleanUpExisting([clients |-> clients, activeBuses |-> activeBuses,
                                  stopCallbacks |-> stopCallbacks], a)
            id == Len(clients) + 1
        IN /\ configured => Len(clients) < MaxClients
           /\ status' = [status EXCEPT ![a] = "running"]
           /\ stopCallbacks' = g.stopCallbacks
           /\ UNCHANGED handles
           /\ IF ~configured
              THEN /\ clients' = g.clients
                   /\ activeBuses' = g.activeBuses
                   /\ gwOut' = [op |-> "startAccount", account |-> a, client |-> NoClient,
                                threw |-> TRUE]
              ELSE /\ clients' = Append(g.clients, [account |-> a, phase |-> "connecting",
                                                    destroyed |-> FALSE])
                   /\ activeBuses' = [g.activeBuses EXCEPT ![a] = id]
                   /\ gwOut' = [op |-> "startAccount", account |-> a, client |-> id,
                                threw |-> FALSE]
           /\ UNCHANGED <<clientVars, senderVars, rateVars, authVars, monitorVars, chunkVars>>

\* ---- client.connect() of a startAccount call resolves: the stop callback
\* is registered and the handle returned ----
StartResolves ==
    \E id \in 1..Len(clients) :
        /\ clients[id].phase = "connecting"
        /\ clients' = [clients EXCEPT ![id].phase = "connected"]
        /\ stopCallbacks' = [stopCallbacks EXCEPT ![clients[id].account] = id]
        /\ handles' = handles \cup {id}
        /\ gwOut' = [op |-> "started", account |-> clients[id].account, client |-> id,
                     threw |-> FALSE]
        /\ UNCHANGED <<activeBuses, status>>
        /\ UNCHANGED <<clientVars, senderVars, rateVars, authVars, monitorVars, chunkVars>>

\* ---- client.connect() of a startAccount call rejects: the activeBuses
\* entry of the account is deleted and the error rethrown ----
StartRejects ==
    \E id \in 1..Len(clients) :
        /\ clients[id].phase = "connecting"
        /\ clients' = [clients EXCEPT ![id].phase = "failed"]
        /\ activeBuses' = [activeBuses EXCEPT ![clients[id].account] = NoClient]
        /\ gwOut' = [op |-> "start failed", account |-> clients[id].account,
                     client |-> id, threw |-> TRUE]
        /\ UNCHANGED <<stopCallbacks, status, handles>>
        /\ UNCHANGED <<clientVars, senderVars, rateVars, authVars, monitorVars, chunkVars>>

\* ---- the host calls a stop handle it holds ----
Stop ==
    \E id \in handles :
        LET g == StopCallback([clients |-> clients, activeBuses |-> activeBuses,
                               stopCallbacks |-> stopCallbacks], clients[id].account, id)
        IN /\ clients' = g.clients
           /\ activeBuses' = g.activeBuses
           /\ stopCallbacks' = g.stopCallbacks
           /\ gwOut' = [op |-> "stop", account |-> clients[id].account, client |-> id,
                        threw |-> FALSE]
           /\ UNCHANGED <<status, handles>>
           /\ UNCHANGED <<clientVars, senderVars, rateVars, authVars, monitorVars, chunkVars>>

\* ---- disconnectAll(): every registered stop callback is called and
\* deleted, then activeBuses is cleared ----
DisconnectAll ==
    LET g == StopEach([clients |-> clients, activeBuses |-> activeBuses,
                       stopCallbacks |-> stopCallbacks],
                      {a \in Accounts : stopCallbacks[a] # NoClient})
    IN /\ clients' = g.clients
       /\ stopCallbacks' = g.stopCallbacks
       /\ activeBuses' = [a \in Accounts |-> NoClient]
       /\ gwOut' = [op |-> "disconnectAll", account |-> "", client |-> NoClient,
                    threw |-> FALSE]
       /\ UNCHANGED <<status, handles>>
       /\ UNCHANGED <<clientVars, senderVars, rateVars, authVars, monitorVars, chunkVars>>

NextGateway ==
    \/ StartAccount
    \/ StartResolves
    \/ StartRejects
    \/ Stop
    \/ DisconnectAll

InitGateway ==
    /\ ClientInit
    /\ SenderInit
    /\ RateIdle
    /\ AuthIdle
    /\ MonitorIdle
    /\ GatewayInit
    /\ ChunkIdle

SpecGateway == InitGateway /\ [][NextGateway]_vars

\* ---- chunkMessage(text, maxLength) up to the while loop: the two early
\* returns, or the loop entered with remaining = text ----
ChunkCall ==
    /\ chunker.phase = "called"
    /\ chunker' =
           IF Len(chunker.text) = 0
           THEN [chunker EXCEPT !.phase = "returned"]
           ELSE IF Len(chunker.text) <= chunker.maxLength
           THEN [chunker EXCEPT !.phase = "returned", !.chunks = <<chunker.text>>]
           ELSE [chunker EXCEPT !.phase = "loop", !.remaining = chunker.text]
    /\ UNCHANGED <<clientVars, senderVars, rateVars, authVars, monitorVars, gatewayVars>>

\* ---- one iteration of the while loop, or its exit ----
ChunkIterate ==
    /\ chunker.phase = "loop"
    /\ chunker' =
           IF Len(chunker.remaining) = 0
           THEN [chunker EXCEPT !.phase = "returned"]
           ELSE LET step == ChunkStep(chunker.remaining, chunker.maxLength)
                IN [chunker EXCEPT !.chunks = Push(@, step.chunk),
                                   !.remaining = step.rest,
                                   !.iterations = @ + 1,
                                   !.phase = IF step.last THEN "returned" ELSE "loop"]
    /\ UNCHANGED <<clientVars, senderVars, rateVars, authVars, monitorVars, gatewayVars>>

NextChunk ==
    \/ ChunkCall
    \/ ChunkIterate

InitChunk ==
    /\ ClientInit
    /\ SenderInit
    /\ RateIdle
    /\ AuthIdle
    /\ MonitorIdle
    /\ GatewayInit
    /\ ChunkInitWith(TextsUpTo(MaxTextLen), 1..MaxLimit)

SpecChunk == InitChunk /\ [][NextChunk]_vars

\* chunkMessage is synchronous code: once called it runs on until it returns
SpecChunkFair == SpecChunk /\ WF_vars(NextChunk)

\* C1: NickServ IDENTIFY is never sent, on any registration, while the
\* opt-in flag allowInsecureNickServ is absent or false.
C1_NoIdentifyWithoutOptIn ==
    ~allowInsecureNickServ => ~HasCmd(wire, IdentifyCmd)

\* C2: when disconnect() has returned, no reconnect timer is pending and no
\* event listener is attached (on a wrapper whose connect() was called once).
C2_DisconnectLeavesNothing ==
    (lastEvent = "disconnect" /\ OneConnectCall) => (timers = <<>> /\ listeners = <<>>)

\* C3: once disconnect() has returned, no step issues a transport connect
\* or invokes the message callback or the error callback.
C3_SilentAfterDisconnect ==
    isDestroyed => (~HasCmd(wire, ConnectCmd) /\ calls = <<>>)

\* a reconnect timer that was still pending at disconnect() has fired
C3_Witness ==
    isDestroyed /\ lastEvent = "timer" /\ Len(promises) >= 2

\* C4: after disconnect() the wrapper stays destroyed, and a connect() call
\* throws, issues no transport connect and leaves ConnectionState as it was:
\* not connected, not registered, no joined channel.
C4_TerminatedIsAbsorbing ==
    [][isDestroyed =>
          /\ isDestroyed'
          /\ lastEvent' = "connect" =>
                /\ thrown'
                /\ ~HasCmd(wire', ConnectCmd)
                /\ state' = state
                /\ ~state'.connected /\ ~state'.registered
                /\ state'.channels = {}]_vars

\* connect() was called on a destroyed wrapper that had been registered
C4_Witness ==
    isDestroyed /\ lastEvent = "connect" /\ thrown /\ state.nickname = BotNick

\* C5: at most one reconnect timer is pending at any time (on a wrapper
\* whose connect() was called once).
C5_SinglePendingTimer ==
    OneConnectCall => Len(timers) <= 1

\* C6: every lost connection consumes exactly one reconnect attempt, and the
\* attempt that makes the counter k is scheduled after
\* min(INITIAL_RECONNECT_DELAY * 2^(k-1), MAX_RECONNECT_DELAY) (on a wrapper
\* whose connect() was called once).
C6_OneAttemptPerLostConnection ==
    [][(lastEvent' = "socket close" /\ Handled /\ ~isDestroyed /\ OneConnectCall
          /\ state.reconnectAttempts < MAX_RECONNECT_ATTEMPTS) =>
          /\ state'.reconnectAttempts = state.reconnectAttempts + 1
          /\ Len(timers') = Len(timers) + 1
          /\ timers'[Len(timers')].delay =
                 Min(INITIAL_RECONNECT_DELAY * Pow2(state'.reconnectAttempts - 1),
                     MAX_RECONNECT_DELAY)]_vars

\* C7: a lost connection at the attempt ceiling reports the fatal error, and
\* once it has been reported no step other than a connect() call schedules
\* a reconnect or issues a transport connect (on a wrapper whose connect()
\* was called once).
C7_ExhaustionIsTerminal ==
    [][/\ (lastEvent' = "socket close" /\ Handled /\ ~isDestroyed
             /\ state.reconnectAttempts >= MAX_RECONNECT_ATTEMPTS)
          => HasCmd(calls', FatalCall)
       /\ (fatalReported /\ OneConnectCall /\ connectCalls' = connectCalls)
          => (nextTimerId' = nextTimerId /\ ~HasCmd(wire', ConnectCmd))]_vars

\* C8: a registration-confirmed event that the manager handles leaves
\* connected and registered true and the attempt counter 0, and issues the
\* joins of the configured channels in listed order.
C8_RegistrationEffects ==
    (lastEvent = "registered" /\ Handled) =>
        /\ state.connected /\ state.registered
        /\ state.reconnectAttempts = 0
        /\ JoinsInListedOrder(wire)

\* a registration after a reconnect
C8_Witness ==
    /\ lastEvent = "registered" /\ Handled
    /\ \E i \in 1..Len(promises) :
           promises[i].owner = "timer" /\ promises[i].outcome = "resolved"

\* C9: a socket-closed event leaves connected and registered false and the
\* joined-channel set empty, and schedules a reconnect exactly when
\* reconnection is enabled, the manager is not destroyed and the attempt
\* ceiling has not been reached.
C9_SocketCloseEffects ==
    [][lastEvent' = "socket close" =>
          /\ ~state'.connected /\ ~state'.registered
          /\ state'.channels = {}
          /\ (nextTimerId' > nextTimerId) <=>
                 (shouldReconnect /\ ~isDestroyed
                    /\ state.reconnectAttempts < MAX_RECONNECT_ATTEMPTS)]_vars

\* a connection was lost with the attempt ceiling reached: nothing scheduled
C9_Witness ==
    /\ lastEvent = "socket close" /\ ~isDestroyed
    /\ state.reconnectAttempts = MAX_RECONNECT_ATTEMPTS
    /\ HasCmd(calls, FatalCall)

\* C10: a connect() call settles, once: when nothing is in flight any more
\* (socket closed, no reconnect timer pending) its promise is resolved or
\* rejected, and resolve/reject ran at most once for it.
C10_ConnectSettles ==
    /\ \A i \in ConnectPromises : promises[i].settles <= 1
    /\ (transport = "idle" /\ timers = <<>>) =>
           \A i \in ConnectPromises : promises[i].outcome # "pending"

\* C11: a "socket error" event never terminates the lifecycle: the listeners
\* record lastError and call onError, and connected, registered, channels,
\* reconnectAttempts, shouldReconnect and isDestroyed keep their values; no
\* timer is set or cleared and no connect promise is settled.
C11_SocketErrorFrame ==
    [][lastEvent' = "socket error" =>
         /\ state'.connected = state.connected
         /\ state'.registered = state.registered
         /\ state'.channels = state.channels
         /\ state'.reconnectAttempts = state.reconnectAttempts
         /\ state'.nickname = state.nickname
         /\ shouldReconnect' = shouldReconnect
         /\ isDestroyed' = isDestroyed
         /\ timers' = timers
         /\ reconnectTimeout' = reconnectTimeout
         /\ promises' = promises
         /\ listeners' = listeners
         /\ wire' = <<>>
         /\ Handled => /\ state'.lastError \in SocketErrors
                       /\ calls' # <<>>
                       /\ \A i \in 1..Len(calls') : calls'[i] = "onError:socket"
         /\ ~Handled => /\ state'.lastError = state.lastError
                        /\ calls' = <<>>]_vars

\* a socket error reported on a registered connection with joined channels
C11_Witness ==
    /\ lastEvent = "socket error"
    /\ Handled
    /\ state.registered
    /\ state.channels # {}
    /\ state.lastError \in SocketErrors
    /\ calls # <<>>

\* C12: with SASL credentials configured, no step hands NickServ IDENTIFY to
\* the transport, whatever nickservPassword and allowInsecureNickServ are.
C12_SaslExclusive == config.sasl => ~HasCmd(wire, IdentifyCmd)

\* a registration handled with SASL, a NickServ password and the opt-in flag
C12_Witness ==
    /\ config.sasl
    /\ config.nickservPassword
    /\ allowInsecureNickServ
    /\ lastEvent = "registered"
    /\ Handled
    /\ state.registered
    /\ Joins(wire) # <<>>

\* C13: sendMessageIrc and sendActionIrc called while the connection is not
\* both connected and registered throw before transmitting: nothing is said
\* to the transport and the connection state is unchanged.
C13_SendFailsBeforeTransmitting ==
    [][(sender' # sender /\ sender'.phase = "call"
          /\ ~(state.connected /\ state.registered)) =>
          /\ sender'.status = "threw"
          /\ sender'.error \in {"IRC client not connected", "IRC client not registered"}
          /\ sender'.said = <<>>
          /\ state' = state
          /\ wire' = wire]_vars

\* sendActionIrc threw on a wrapper that had been registered and lost its
\* connection
C13_Witness ==
    /\ sender.op = "sendActionIrc"
    /\ sender.status = "threw"
    /\ sender.said = <<>>
    /\ state.nickname = BotNick
    /\ ~state.connected

\* C14: when sendMessageIrc completes without error every chunk of the reply
\* has been handed to the transport, also when the connection closes or
\* disconnect() is called during an inter-chunk delay.
C14_NoChunkDropped ==
    (sender.op = "sendMessageIrc" /\ sender.status = "done") =>
        /\ Len(sender.said) = Len(sender.chunks)
        /\ \A i \in 1..Len(sender.said) : sender.said[i].text = sender.chunks[i]

\* the suspended calls of which this step can be the continuation: the step
\* replaced the call in the list of suspended calls, or removed it
ResumedCalls ==
    {sending[i] : i \in {k \in 1..Len(sending) :
        sending' = IF sender'.status = "delay"
                   THEN [sending EXCEPT ![k] = sender']
                   ELSE SubSeq(sending, 1, k - 1) \o SubSeq(sending, k + 1, Len(sending))}}

\* C15: the chunks of one reply go to the transport one per step, in chunk
\* order: a step hands over at most the chunk at the sender's position, a
\* later chunk only after the inter-chunk delay that follows the one before
\* it, no chunk twice, and chunk i+1 only when chunk i was handed over: the
\* chunks handed over so far are always chunks 1..k of the reply, without a
\* gap.
C15_ChunksInOrder ==
    [][senderVars' # senderVars =>
         \E c \in IF sender'.phase = "call" THEN {SenderIdle} ELSE ResumedCalls :
             LET before == c.said
                 pos == c.next
                 after == sender'.said
             IN /\ sender'.phase = "resume" =>
                       (c.status = "delay" /\ c.chunks = sender'.chunks
                          /\ c.target = sender'.target)
                /\ \/ after = before
                   \/ /\ Len(after) = Len(before) + 1
                      /\ SubSeq(after, 1, Len(before)) = before
                      /\ after[Len(after)] = [target |-> sender'.target, i |-> pos,
                                              text |-> sender'.chunks[pos]]
                /\ \A i, j \in 1..Len(after) : i < j => after[i].i < after[j].i
                /\ \A k \in 1..Len(after) : after[k].i = k
                /\ sender'.next <= pos + 1]_vars

\* ---- observations on sender identifiers ----
\* the same letter, whatever its case
SameLetter(c, d) ==
    \/ c = d
    \/ \E i \in 1..Len(UpperCase) : {c, d} = {UpperCase[i], LowerCase[i]}

\* k spells nick in lower case without the whitespace around it
IsNormalFormOf(k, nick) ==
    \E a \in 0..Len(nick) :
        /\ a + Len(k) <= Len(nick)
        /\ \A i \in 1..a : nick[i] \in WhiteSpace
        /\ \A i \in (a + Len(k) + 1)..Len(nick) : nick[i] \in WhiteSpace
        /\ \A i \in 1..Len(k) : /\ SameLetter(k[i], nick[a + i])
                                /\ \A u \in 1..Len(UpperCase) : k[i] # UpperCase[u]
        /\ k # <<>> => (k[1] \notin WhiteSpace /\ k[Len(k)] \notin WhiteSpace)

\* two spellings of one identifier
SameIdentity(k1, k2) ==
    /\ Len(k1) = Len(k2)
    /\ \A i \in 1..Len(k1) : SameLetter(k1[i], k2[i])

\* the step is a call of isRateLimited: it changes the map or the result
\* and, unlike a reset or a clear, deletes no entry
RateCheckStep ==
    /\ rateLimits' # rateLimits \/ rateOut' # rateOut
    /\ DOMAIN rateLimits \subseteq DOMAIN rateLimits'

\* C16: for a limit N and one key, the first N checks of a window return
\* limited = false, check N+1 returns limited = true with shouldNotify = true,
\* every further check of the window returns limited = true with
\* shouldNotify = false, and the first check after the window has elapsed
\* (later than its end) opens a new window and returns limited = false; a
\* window also ends when the entry is reset or the map cleared.
C16_WindowCounts ==
    [][RateCheckStep =>
         LET n == window'[rateOut'.key].calls
             N == rateConfig.maxRequests
         IN /\ rateOut'.limited = (n > N)
            /\ rateOut'.shouldNotify = (n = N + 1)]_vars

\* in a second window of a key, a check past the notified one
C16_Witness ==
    /\ rateOut.called
    /\ rateOut.key \in DOMAIN window
    /\ rateConfig.maxRequests >= 2
    /\ window[rateOut.key].start > rateConfig.windowMs
    /\ window[rateOut.key].calls = rateConfig.maxRequests + 2
    /\ rateOut.limited
    /\ ~rateOut.shouldNotify

\* C17: count is incremented only while now < resetTime, a check made at
\* now = resetTime or later replaces the entry, and notified goes from false
\* to true only within a window and back to false only by replacement.
C17_IncrementOnlyInsideWindow ==
    [][(RateCheckStep /\ rateOut'.key \in DOMAIN rateLimits) =>
         LET old == rateLimits[rateOut'.key]
             new == rateLimits'[rateOut'.key]
             fresh == [count |-> 1, resetTime |-> now + rateConfig.windowMs,
                       notified |-> FALSE]
         IN /\ now >= old.resetTime => new = fresh
            /\ new.count = old.count + 1 => now < old.resetTime
            /\ (~old.notified /\ new.notified) => now < old.resetTime
            /\ (old.notified /\ ~new.notified) => new = fresh]_vars

\* C18: the entries are keyed by the lower-cased, trimmed identifier: a check
\* for any spelling of an identity updates the one entry under its normal
\* form, no two entries belong to one identity, and the entries of all other
\* keys are unchanged.
C18_KeysPartitioned ==
    [][RateCheckStep =>
         LET key == rateOut'.key
         IN /\ IsNormalFormOf(key, rateOut'.nick)
            /\ DOMAIN rateLimits' = DOMAIN rateLimits \cup {key}
            /\ \A k \in DOMAIN rateLimits :
                   k # key => rateLimits'[k] = rateLimits[k]
            /\ \A k1, k2 \in DOMAIN rateLimits' :
                   SameIdentity(k1, k2) => k1 = k2]_vars

\* the padded, mixed-case spelling made the third check of the entry that
\* the other spellings opened, next to the entry of another identity
C18_Witness ==
    /\ rateOut.nick = <<" ", "a", "L", "x0B">>
    /\ rateOut.key = <<"a", "l">>
    /\ DOMAIN rateLimits = {<<"a", "l">>, <<"b", "o">>}
    /\ rateLimits[<<"a", "l">>].count = 3
    /\ rateLimits[<<"b", "o">>].count = 1

\* ---- observations on authorization ----
\* the list has the wildcard entry or an entry that spells the sender,
\* whatever the case of either
ListMatches(nick, entries) ==
    \E i \in 1..Len(entries) :
        entries[i] = Wildcard \/ SameIdentity(nick, entries[i])

\* the keys of the configured groups that the target is looked up under: the
\* target as written, or its spelling without upper-case letters
GroupKeys(target, groups) ==
    {k \in DOMAIN groups :
        \/ k = target
        \/ /\ SameIdentity(k, target)
           /\ \A i \in 1..Len(k), u \in 1..Len(UpperCase) : k[i] # UpperCase[u]}

\* C19: the DM policy "disabled" denies every sender with "DMs are disabled",
\* "open" allows every sender, and "pairing" denies with "Not paired" when
\* the allow-list is empty or has no entry for the sender, and allows when an
\* entry spells the sender in any case or is the wildcard.
C19_DmPolicy ==
    authOut.fn = "isAuthorizedForDm" =>
        /\ authIn.dmPolicy = "disabled" => authOut.result = Deny("DMs are disabled")
        /\ authIn.dmPolicy = "open" => authOut.result = Allow
        /\ authIn.dmPolicy = "pairing" =>
               authOut.result = IF authIn.allowFrom = <<>>
                                  \/ ~ListMatches(authIn.nick, authIn.allowFrom)
                                THEN Deny("Not paired")
                                ELSE Allow

\* pairing allowed a sender whose entry is written in another case
C19_Witness ==
    /\ authOut.fn = "isAuthorizedForDm"
    /\ authIn.dmPolicy = "pairing"
    /\ authIn.nick = <<"A", "l">>
    /\ authIn.allowFrom = <<<<"b", "o">>, <<"A", "L">>>>
    /\ authOut.result.authorized

\* C20: for a target that is a group identifier ('#' or '&' prefix), the
\* group policy "all" allows every sender; "allowlist" denies with
\* "Channel not configured" when the group has no entry, else allows exactly
\* the senders its user list matches and denies the others with "Not in
\* allowlist"; "denylist" allows when the group has no entry, else denies
\* with "In denylist" exactly the senders its user list matches.
C20_GroupPolicy ==
    (authOut.fn = "isAuthorizedForChannel" /\ IsChannel(authIn.target)) =>
        LET keys == GroupKeys(authIn.target, authIn.groups)
            listed == \E k \in keys : ListMatches(authIn.nick, authIn.groups[k].users)
        IN /\ authIn.groupPolicy = "all" => authOut.result = Allow
           /\ authIn.groupPolicy = "allowlist" =>
                  authOut.result = IF keys = {} THEN Deny("Channel not configured")
                                   ELSE IF listed THEN Allow
                                   ELSE Deny("Not in allowlist")
           /\ authIn.groupPolicy = "denylist" =>
                  authOut.result = IF keys = {} THEN Allow
                                   ELSE IF listed THEN Deny("In denylist")
                                   ELSE Allow

\* the denylist of a configured group denied a sender listed in another case
C20_Witness ==
    /\ authOut.fn = "isAuthorizedForChannel"
    /\ authIn.groupPolicy = "denylist"
    /\ authIn.target = <<"#", "A">>
    /\ DOMAIN authIn.groups = {<<"#", "a">>}
    /\ authIn.nick = <<"a", "l">>
    /\ authOut.result = Deny("In denylist")

\* the policy values the switches of auth.ts recognize
KnownDmPolicies == {"disabled", "open", "pairing"}
KnownGroupPolicies == {"all", "allowlist", "denylist"}

\* C21: authorization fails closed: isAuthorizedForDm denies every sender
\* under a DM policy value outside the recognized set, isAuthorizedForChannel
\* denies every sender in every channel under a group policy value outside
\* the recognized set, and isAuthorized denies every sender to every channel
\* target ('#' or '&' prefix, as isChannel classifies it) under an
\* unrecognized group policy, every sender to every other target under an
\* unrecognized DM policy, and every sender and target when both are
\* unrecognized.
C21_FailsClosed ==
    LET dmUnknown == authIn.dmPolicy \notin KnownDmPolicies \cup {Absent}
        groupUnknown == authIn.groupPolicy \notin KnownGroupPolicies \cup {Absent}
    IN /\ (authOut.fn = "isAuthorizedForDm" /\ dmUnknown) =>
              ~authOut.result.authorized
       /\ (authOut.fn = "isAuthorizedForChannel" /\ groupUnknown) =>
              ~authOut.result.authorized
       /\ (authOut.fn = "isAuthorized" /\ dmUnknown /\ groupUnknown) =>
              ~authOut.result.authorized
       /\ (authOut.fn = "isAuthorized" /\ groupUnknown
             /\ IsChannel(authIn.target)) => ~authOut.result.authorized
       /\ (authOut.fn = "isAuthorized" /\ dmUnknown
             /\ ~IsChannel(authIn.target)) => ~authOut.result.authorized

\* C22: isAuthorized applies the group policy exactly when the target is a
\* channel, as isChannel classifies it ('#' or '&' prefix), and the DM policy
\* otherwise.
C22_PolicyClassMatchesChatType ==
    authOut.fn = "isAuthorized" =>
        authOut.result = IF IsChannel(authIn.target)
                         THEN IsAuthorizedForChannel(authIn.nick, authIn.target, authIn)
                         ELSE IsAuthorizedForDm(authIn.nick, authIn)

\* the groups maps that differ from groups only in the case of their keys
CaseVariantsOf(groups) ==
    {g \in AuthGroups :
        /\ Cardinality(DOMAIN g) = Cardinality(DOMAIN groups)
        /\ \A k \in DOMAIN groups : \E k2 \in DOMAIN g :
               SameIdentity(k, k2) /\ g[k2] = groups[k]}

\* C23: the group entry found for a target, and so the result of
\* isAuthorizedForChannel, is the same for every case variant of the target
\* name and of the configured group key.
C23_ChannelLookupIgnoresCase ==
    authOut.fn = "isAuthorizedForChannel" =>
        \A t \in AuthTargets, g \in CaseVariantsOf(authIn.groups) :
            SameIdentity(t, authIn.target) =>
                IsAuthorizedForChannel(authIn.nick, t, [authIn EXCEPT !.groups = g])
                    = authOut.result

\* C24: a received line whose sender the authorizer denies is dropped
\* silently: the step that handles it hands nothing to the agent (no handler
\* is left waiting, so nothing is sent for it later either) and transmits
\* nothing, neither a notice nor a reply.
C24_DeniedDroppedSilently ==
    [][(/\ monOut'.kind = "privmsg"
        /\ ~IsAuthorized(monOut'.event.nick, monOut'.event.target,
                         accessConfig).authorized)
       => (/\ ~monOut'.forwarded
           /\ monOut'.said = <<>>
           /\ handlers' = handlers)]_vars

C24_Witness ==
    /\ monOut.kind = "privmsg"
    /\ monOut.event = [nick |-> <<"b", "o">>, target |-> <<"#", "a">>,
                       message |-> <<"h", "i">>]
    /\ ~IsAuthorized(monOut.event.nick, monOut.event.target, accessConfig).authorized
    /\ ~monOut.forwarded
    /\ monOut.said = <<>>

\* C25: of the lines of one sender that reach the rate limiter in one
\* window, the first maxRequests are handed to the agent without any
\* transmission, the next one is answered with exactly one notice to the
\* reply target and not handed on, and every later one is neither answered
\* nor handed on.
C25_OneNoticePerWindow ==
    (monOut.kind = "privmsg" /\ GateVerdict(monOut.event) = "pass") =>
        LET n == window[NormalizeKey(monOut.event.nick)].calls
            notice == [target |-> ReplyTarget(monOut.event), i |-> 1,
                       text |-> RateLimitNotice]
        IN /\ n <= rateConfig.maxRequests => (monOut.forwarded /\ monOut.said = <<>>)
           /\ n = rateConfig.maxRequests + 1 =>
                  (~monOut.forwarded /\ monOut.said = <<notice>>)
           /\ n > rateConfig.maxRequests + 1 =>
                  (~monOut.forwarded /\ monOut.said = <<>>)

\* a notice in a window that is not the sender's first
C25_Witness ==
    /\ monOut.kind = "privmsg"
    /\ monOut.event.nick = <<"a", "l">>
    /\ <<"a", "l">> \in DOMAIN window
    /\ window[<<"a", "l">>].start > 0
    /\ window[<<"a", "l">>].calls = rateConfig.maxRequests + 1
    /\ Len(monOut.said) = 1
    /\ monOut.said[1].text = RateLimitNotice

\* C26: a received line is handed to the agent exactly when its sender is
\* not the bot's current nickname, it is not a CTCP command other than
\* ACTION, its sanitized text is valid content, the authorizer allows it and
\* it is within the sender's limit; a mention of the bot plays no part.
C26_ForwardedIff ==
    monOut.kind = "privmsg" =>
        LET ev == monOut.event
            sanitized == SanitizeMessage(ev.message)
            key == NormalizeKey(ev.nick)
        IN monOut.forwarded <=>
               /\ ev.nick # NickChars(state.nickname)
               /\ ~(sanitized.isCtcp /\ sanitized.ctcpCommand # ActionCommand)
               /\ IsValidMessageContent(sanitized.text)
               /\ IsAuthorized(ev.nick, ev.target, accessConfig).authorized
               /\ key \in DOMAIN window
               /\ window[key].calls <= rateConfig.maxRequests

\* a line that does not mention the bot is handed on
C26_Witness ==
    /\ monOut.kind = "privmsg"
    /\ monOut.forwarded
    /\ IsChannel(monOut.event.target)
    /\ ~ExtractMention(SanitizeMessage(monOut.event.message).text, BotNickChars).mentioned
    /\ monOut.text = <<"h", "i">>

\* sub occurs in text
Contains(text, sub) ==
    \E k \in 0..(Len(text) - Len(sub)) : SubSeq(text, k + 1, k + Len(sub)) = sub

\* the steps in which the agent fails: another exit code, an output that
\* cannot be read, a process that cannot be spawned, the timeout
AgentFailureKinds == {"agent failure", "agent garbled", "agent error", "agent timeout"}

\* C27: when the agent fails, nothing that is transmitted to the chat
\* target contains the text of the error.
C27_FailureNoticeIsGeneric ==
    monOut.kind \in AgentFailureKinds =>
        \A k \in 1..Len(monOut.said) :
            ~Contains(monOut.said[k].text, monOut.error)

\* C28: while a handler is suspended between two chunks of its reply, a
\* step that transmits is the next step of that same handler: nothing
\* caused by another received line goes out in between.
C28_NoInterleaving ==
    [][\A i \in 1..Len(handlers) :
          (/\ handlers[i].status = "delay"
           /\ (monOut' # monOut \/ handlers' # handlers)
           /\ monOut'.said # <<>>)
          => (monOut'.kind = "resume" /\ monOut'.slot = i)]_vars

\* C29: the running flag reported to the host for an account is true
\* exactly while a client of the account is started and not stopped; in
\* particular it is not true after the stop handle was called or after a
\* start that failed.
C29_StatusTracksClient ==
    \A a \in Accounts :
        /\ status[a] = "running" <=>
               \E id \in 1..Len(clients) : clients[id].account = a /\ Live(clients[id])
        /\ (gwOut.account = a /\ gwOut.threw) => status[a] # "running"

\* C30: for every text and every limit of at least 1, chunkMessage returns,
\* and every chunk it returns is at most the limit long.
C30_ChunkTerminatesWithinLimit ==
    <>[](/\ chunker.phase = "returned"
         /\ \A i \in 1..Len(chunker.chunks) : Len(chunker.chunks[i]) <= chunker.maxLength)

\* a text split by the loop, with a chunk as long as the limit
C30_Witness ==
    /\ chunker.phase = "returned"
    /\ chunker.iterations >= 2
    /\ Len(chunker.text) > chunker.maxLength
    /\ chunker.chunks = ChunkMessage(chunker.text, chunker.maxLength)
    /\ \E i \in 1..Len(chunker.chunks) : Len(chunker.chunks[i]) = chunker.maxLength

\* C31: every chunk chunkMessage returns is non-empty and has no trailing
\* whitespace, also when the text is at or under the limit.
C31_ChunksTrimmedNonEmpty ==
    chunker.phase = "returned" =>
        \A i \in 1..Len(chunker.chunks) :
            /\ Len(chunker.chunks[i]) > 0
            /\ TrimEnd(chunker.chunks[i]) = chunker.chunks[i]

\* the chunks joined in order
RECURSIVE Concat(_)
Concat(seqs) == IF seqs = <<>> THEN <<>> ELSE Head(seqs) \o Concat(Tail(seqs))

\* the characters of s that are not whitespace, in order
NonWhiteSpace(s) == SelectSeq(s, LAMBDA c : c \notin WhiteSpace)

\* text is the chunks in order with a run of whitespace (possibly empty)
\* before each chunk and after the last one; inner tells whether the runs
\* before the chunks may be non-empty
RECURSIVE OnlyGapsRemoved(_, _, _)
OnlyGapsRemoved(text, chunks, inner) ==
    IF chunks = <<>> THEN \A i \in 1..Len(text) : text[i] \in WhiteSpace
    ELSE \E k \in 0..(IF inner THEN Len(text) - Len(Head(chunks)) ELSE 0) :
             /\ k + Len(Head(chunks)) <= Len(text)
             /\ \A i \in 1..k : text[i] \in WhiteSpace
             /\ SubSeq(text, k + 1, k + Len(Head(chunks))) = Head(chunks)
             /\ OnlyGapsRemoved(SliceFrom(text, k + Len(Head(chunks))), Tail(chunks), inner)

\* C40: the non-whitespace characters of the returned chunks, joined in
\* order, are exactly the non-whitespace characters of the text in order,
\* and nothing but whitespace at split points and trailing whitespace is
\* removed: the text is the chunks in order, separated by runs of
\* whitespace (only where the text was split, so only when it is longer
\* than the limit) and followed by a run of whitespace.
C40_NoContentLostOrReordered ==
    chunker.phase = "returned" =>
        /\ NonWhiteSpace(Concat(chunker.chunks)) = NonWhiteSpace(chunker.text)
        /\ OnlyGapsRemoved(chunker.text, chunker.chunks,
                           Len(chunker.text) > chunker.maxLength)

\* a text of two different words cut in the loop at the space between them,
\* which is dropped
C40_Witness ==
    /\ chunker.phase = "returned"
    /\ chunker.text = <<"a", "b", " ", "b", "a">>
    /\ chunker.maxLength = 3
    /\ chunker.chunks = <<<<"a", "b">>, <<"b", "a">>>>

\* C32: the sweep (a step that deletes entries and is neither a reset nor a
\* clear) removes only entries whose window (as the caller saw it open) has
\* elapsed and leaves the others as they are, and every check returns what
\* it would have returned had no sweep ever run.
C32_SweepIsInvisible ==
    [][/\ unswept' = unswept =>
              \A k \in DOMAIN rateLimits \ DOMAIN rateLimits' :
                  now > window[k].start + rateConfig.windowMs
       /\ (DOMAIN rateLimits \ DOMAIN rateLimits' # {} =>
              \A k \in DOMAIN rateLimits' : rateLimits'[k] = rateLimits[k])
       /\ rateOut'.limited = unswept'.limited
       /\ rateOut'.shouldNotify = unswept'.shouldNotify]_vars

\* a limited check made after a sweep has removed another sender's entry
C32_Witness ==
    /\ rateOut.called
    /\ rateOut.limited
    /\ DOMAIN rateLimits # DOMAIN unswept.limits

\* C33: a disconnect() that follows a disconnect() leaves the state of the
\* first call (not connected, not registered, no joined channel, no timer
\* pending or held), sends no QUIT and throws nothing (on a wrapper whose
\* connect() was called once).
C33_DisconnectIdempotent ==
    [][(lastEvent = "disconnect" /\ lastEvent' = "disconnect" /\ OneConnectCall) =>
          /\ state' = state
          /\ ~state'.connected
          /\ ~state'.registered
          /\ state'.channels = {}
          /\ reconnectTimeout' = NoTimer
          /\ timers' = <<>>
          /\ listeners' = <<>>
          /\ wire' = <<>>
          /\ ~thrown']_vars

\* C34: one registered event, handled while listeners are attached, issues
\* exactly one JOIN per configured channel and at most one IDENTIFY,
\* however many reconnects the wrapper made after its one connect() call.
C34_OneJoinPerChannel ==
    (lastEvent = "registered" /\ listeners # <<>> /\ OneConnectCall) =>
        /\ Len(Joins(wire)) = Len(config.channels)
        /\ \A i \in 1..Len(config.channels) :
               Cardinality({k \in 1..Len(wire) : wire[k] = JoinCmd(config.channels[i])}) = 1
        /\ Cardinality({k \in 1..Len(wire) : wire[k] = IdentifyCmd}) <= 1

\* C35: the reconnect-attempt counter is never above MAX_RECONNECT_ATTEMPTS.
C35_AttemptsBounded ==
    state.reconnectAttempts <= MAX_RECONNECT_ATTEMPTS

\* the counter at the ceiling, reached with several close handlers running
\* for one socket close
C35_Witness ==
    /\ state.reconnectAttempts = MAX_RECONNECT_ATTEMPTS
    /\ lastEvent = "socket close"
    /\ Len(listeners) > 1
\* the four early returns of the handler, monitor.ts 22-48, as conditions on
\* the received line
DroppedBeforeRateLimit(ev) ==
    \/ ev.nick = NickChars(state.nickname)
    \/ LET sanitized == SanitizeMessage(ev.message)
       IN \/ sanitized.isCtcp /\ sanitized.ctcpCommand # ActionCommand
          \/ ~IsValidMessageContent(sanitized.text)
    \/ ~IsAuthorized(ev.nick, ev.target, accessConfig).authorized

\* C36: the step that handles a received line which is a self-echo, a CTCP
\* command other than ACTION, invalid content or from a denied sender leaves
\* the rate-limit map as it was (no entry created, no count raised), starts
\* no cleanup timer, transmits nothing and hands nothing to the agent.
C36_EarlyDropKeepsQuota ==
    [][(monOut'.kind = "privmsg" /\ DroppedBeforeRateLimit(monOut'.event))
       => (/\ rateLimits' = rateLimits
           /\ cleanupTimer' = cleanupTimer
           /\ monOut'.said = <<>>
           /\ ~monOut'.forwarded)]_vars

\* al has used the whole quota of the window and then sends a CTCP VERSION:
\* no notice, and the count stays at the limit
C36_Witness ==
    /\ monOut.kind = "privmsg"
    /\ monOut.event.nick = <<"a", "l">>
    /\ monOut.event.message = <<CtcpDelim, "V", "E", "R", "S", "I", "O", "N", CtcpDelim>>
    /\ IsAuthorized(monOut.event.nick, monOut.event.target, accessConfig).authorized
    /\ <<"a", "l">> \in DOMAIN rateLimits
    /\ rateLimits[<<"a", "l">>].count = rateConfig.maxRequests
    /\ now <= rateLimits[<<"a", "l">>].resetTime
    /\ monOut.said = <<>>
    /\ ~monOut.forwarded
\* the clients of account a that were created and not destroyed
Undestroyed(a) == {id \in 1..Len(clients) : clients[id].account = a /\ Live(clients[id])}

\* C37: at every moment every account has at most one client that was
\* created and not destroyed.
C37_OneLiveClientPerAccount ==
    \A a \in Accounts : Cardinality(Undestroyed(a)) <= 1

\* C38: in the state disconnectAll() leaves, every client startAccount
\* created is destroyed, whatever the phase of its connect().
C38_DisconnectAllDestroysAll ==
    gwOut.op = "disconnectAll" => \A id \in 1..Len(clients) : clients[id].destroyed

\* C39: a call of the stop handle of a client that an earlier stop or a
\* later startAccount already destroyed, made while the account has another,
\* current client, leaves the current client not destroyed and both map
\* entries of the account as they were.
C39_StaleStopHarmless ==
    [][(/\ gwOut'.op = "stop"
        /\ gwOut'.account \in Accounts
        /\ clients[gwOut'.client].destroyed
        /\ activeBuses[gwOut'.account] # NoClient
        /\ activeBuses[gwOut'.account] # gwOut'.client)
       => (/\ ~clients'[activeBuses[gwOut'.account]].destroyed
           /\ activeBuses'[gwOut'.account] = activeBuses[gwOut'.account]
           /\ stopCallbacks'[gwOut'.account] = stopCallbacks[gwOut'.account])]_vars
====
